---- MODULE Spec2Model ----
(***************************************************************************)
(* Session lifecycle and fail-safe persistence of the excel module         *)
(* (src/excel_module/commands.py, excel_engine.py, app.py) and the GUI     *)
(* launcher's pipeline (src/launch_gui.py).                                *)
(*                                                                         *)
(* One Session object drives one spreadsheet host.  Every call into the    *)
(* host (start, open, save, SaveAs, close, quit) and every file write can  *)
(* raise; which of them raise is an input of each operation, drawn from    *)
(* small sets.  Each public operation of Session is one action; the        *)
(* private _safe_save runs inside write_to_excel and create_dashboard.     *)
(***************************************************************************)
EXTENDS Integers, Sequences, FiniteSets, TLC

VARIABLES
    df,      \* Session.df: NoData or a dataset [id, cleaned]
    path,    \* Session.path: NoneV or a path
    app,     \* Session.app: NoHandle or the index of a host process in hosts
    wb,      \* Session.wb: NoHandle or the index of a document in docs
    fs,      \* the file system: path -> NoFile or a file content
    hosts,   \* every host process started so far (xw.App), in start order
    docs,    \* every document opened so far (xw.Book), in open order
    last,    \* the last operation: its name, outcome, value and host/file calls
    mode,    \* who drives the session: "api", "gui" (_run_pipeline), "cli" (example_flow)
    pc,      \* the driver's position in its pipeline
    failed,  \* the pipeline caught or propagated an error
    calls,   \* number of operations performed so far
    frame,   \* the tabular dataset (pandas DataFrame) the pure functions work on
    out,     \* the last application of a pure function: its inputs and its result
    render,  \* the last run of the dashboard builder: its faults and its host calls
    mgr,     \* AsyncReminderManagerWindows: _reminders, the store file, _task, _running, _lock
    tasks,   \* every task created for _loop, in creation order, with its position
    stopper, \* the stop() in flight: the task it waits for, and whether shutdown() called it
    clock,   \* the wall clock, in check intervals
    fired,   \* per reminder id: how often the on-fire callbacks were invoked for it
    made,    \* per reminder id: the repeat_seconds it was created with (0 for None)
    deleted, \* the ids for which delete_reminder has returned True
    deletes, \* number of delete_reminder calls completed so far
    launcher \* LauncherApp: _running, the Run button, the last message box, the worker threads, where the main thread is

reminderVars == <<mgr, tasks, stopper, clock, fired, made, deleted, deletes>>

vars == <<df, path, app, wb, fs, hosts, docs, last, mode, pc, failed, calls, frame, out,
          render, reminderVars, launcher>>

\* Python's None, for each kind of value that can be None.
NoneV == "None"

NoData == [none |-> TRUE]

NoFile == [kind |-> "absent"]

NoHandle == 0

\* Bound: operations a free client of the API performs on one session (the two
\* pipelines are bounded by their own length).
MaxCalls == 4

\* Two target paths: one with a spreadsheet extension, one delimited-text.
Paths == {"a.xlsx", "b.csv"}

\* pandas picks the writer of DataFrame.to_excel from the extension of the
\* path; a path whose extension has no spreadsheet writer makes it raise
\* before the file is opened.
HasExcelWriter(p) == p \in {"a.xlsx", "Book1.xlsx"}

\* Target paths of which one carries a name as the host gives to new documents.
BookPaths == {"a.xlsx", "Book1.xlsx"}

\* The name of a document the host has just created (books.add).
DefaultName == "Book1"

\* The names that start with "Book" or "~".
TempNames == {DefaultName, "Book1.xlsx"}

RawOf(p) == IF p = "a.xlsx" THEN "d1" ELSE "d2"

Dataset(id, cleaned) == [id |-> id, cleaned |-> cleaned]

EmptyData == Dataset("empty", FALSE)

\* File contents.  kind: "input" (the caller's original file), "native" (a
\* document saved by the host), "flat" (the dataset written by to_excel),
\* "partial" (a write that stopped part-way).  data: what a load reads back;
\* src: the dataset on the SourceData sheet; dash: state of the dashboard.
File(kind, data, src, dash) == [kind |-> kind, data |-> data, src |-> src, dash |-> dash]

InputFile(p) == File("input", Dataset(RawOf(p), FALSE), NoData, "none")

FlatFile(d) == File("flat", d, NoData, "none")

PartialFile == File("partial", NoData, NoData, "none")

\* An input file that parses to a dataset without rows (a header line only).
EmptyInputFile == File("input", EmptyData, NoData, "none")

\* A dataset with two headers that are equal once normalize_headers has
\* trimmed them (" n\n" and "n"), and an input file that parses to it.
ClashData == Dataset("clash", FALSE)

ClashInputFile == File("input", ClashData, NoData, "none")

\* The session and its environment as one value, for the operators below.
State == [df |-> df, path |-> path, app |-> app, wb |-> wb,
          fs |-> fs, hosts |-> hosts, docs |-> docs]

Exists(s, p) == p # NoneV /\ s.fs[p] # NoFile

\* Result of an operation that returned: new state, the returned value (as a
\* string), what _safe_save returned inside it ("True", "False", or NoneV when
\* it was not called), and the host and file calls issued, in order.
Result(s, outcome, value, saveRet, log) ==
    [s |-> s, outcome |-> outcome, value |-> value, saveRet |-> saveRet,
     error |-> NoneV, log |-> log]

\* Result of an operation that raised: the class of the exception that left it.
Raised(s, error, saveRet, log) ==
    [s |-> s, outcome |-> "raised", value |-> NoneV, saveRet |-> saveRet,
     error |-> error, log |-> log]

\* Exception classes.  HostError stands for whatever the host automation
\* raises, ParseError for whatever pandas raises on an unreadable file.
\* FileNotFoundError is a subclass of OSError, of which IOError is an alias.
IOErrors == {"OSError", "FileNotFoundError"}

\* The record of one call in an operation's log: the call, followed by
\* "<call>:raised" when it raised.
Call(name, raises) ==
    IF raises THEN <<name, name \o ":raised">> ELSE <<name>>

-----------------------------------------------------------------------------
(* excel_engine.open_workbook *)

OpenOutcomes == {"ok", "app_raises", "book_raises"}

\* A file that was only partly written cannot be opened by the host.
OpenOutcome(s, e) ==
    IF e.open = "ok" /\ Exists(s, s.path) /\ s.fs[s.path].kind = "partial"
    THEN "book_raises" ELSE e.open

NewDoc(s, h) ==
    IF Exists(s, s.path)
    THEN [host |-> h, bound |-> TRUE, name |-> s.path, data |-> s.fs[s.path].data,
          src |-> s.fs[s.path].src, dash |-> s.fs[s.path].dash,
          unsaved |-> FALSE, unsavedDash |-> FALSE, saved |-> FALSE, closeCalls |-> 0]
    ELSE [host |-> h, bound |-> FALSE, name |-> DefaultName, data |-> EmptyData,
          src |-> NoData, dash |-> "none",
          unsaved |-> FALSE, unsavedDash |-> FALSE, saved |-> FALSE, closeCalls |-> 0]

\* Returns the registries with the new host (and document), and the pair
\* (app, wb) when it does not raise.  xw.App() starts the host first; when
\* books.open / books.add raises afterwards the host is running but no
\* reference to it is returned.
open_workbook(s, e) ==
    LET o  == OpenOutcome(s, e)
        h  == Len(s.hosts) + 1
        s1 == [s EXCEPT !.hosts = Append(@, [alive |-> TRUE, quitCalls |-> 0])]
        bk == IF Exists(s, s.path) THEN "books.open" ELSE "books.add"
    IN  IF o = "app_raises"
        THEN [s |-> s, raised |-> TRUE, app |-> NoHandle, wb |-> NoHandle,
              log |-> Call("App", TRUE)]
        ELSE IF o = "book_raises"
        THEN [s |-> s1, raised |-> TRUE, app |-> NoHandle, wb |-> NoHandle,
              log |-> <<"App">> \o Call(bk, TRUE)]
        ELSE [s |-> [s1 EXCEPT !.docs = Append(@, NewDoc(s, h))], raised |-> FALSE,
              app |-> h, wb |-> Len(s.docs) + 1, log |-> <<"App", bk>>]

-----------------------------------------------------------------------------
(* Host calls on the open document *)

\* A native save of document w to path p writes the whole document there and
\* binds the document to p, whose file name becomes the document's name.
NativeSave(s, w, p) ==
    [s EXCEPT !.fs[p] = File("native", s.docs[w].data, s.docs[w].src, s.docs[w].dash),
              !.docs[w].bound = TRUE,
              !.docs[w].name = p,
              !.docs[w].saved = TRUE,
              !.docs[w].unsaved = FALSE,
              !.docs[w].unsavedDash = FALSE]

\* wb.save() without a path saves in place (a never-saved book goes to the
\* host's default directory, none of Paths).
SaveInPlace(s, w) ==
    [s EXCEPT !.docs[w].saved = TRUE, !.docs[w].unsaved = FALSE,
              !.docs[w].unsavedDash = FALSE]

\* wb.close(): counted when issued, whether or not it raises.
CloseDoc(s, w) == [s EXCEPT !.docs[w].closeCalls = @ + 1]

\* app.quit(): counted when issued; the process ends unless the call raises.
QuitApp(s, h, raises) ==
    [s EXCEPT !.hosts[h].quitCalls = @ + 1,
              !.hosts[h].alive = IF raises THEN @ ELSE FALSE]

ClearHandles(s) == [s EXCEPT !.app = NoHandle, !.wb = NoHandle]

-----------------------------------------------------------------------------
(* Session.open_excel *)

\* Mutant: open_excel without its early return, starting a host on every call.
open_excel_unguarded(s, e) ==
    LET o == open_workbook(s, e) IN
    IF o.raised
    THEN Raised(o.s, "HostError", NoneV, o.log)
    ELSE Result([o.s EXCEPT !.app = o.app, !.wb = o.wb], "returned", NoneV, NoneV, o.log)

\* The first SaveAs of a new document claims the target name; a failure is
\* logged and swallowed.
open_excel(s, e) ==
    IF s.app # NoHandle /\ s.wb # NoHandle
    THEN Result(s, "returned", NoneV, NoneV, <<>>)
    ELSE LET o == open_workbook(s, e) IN
         IF o.raised
         THEN Raised(o.s, "HostError", NoneV, o.log)
         ELSE LET s1 == [o.s EXCEPT !.app = o.app, !.wb = o.wb] IN
              IF s.path # NoneV /\ ~Exists(s, s.path)
              THEN Result(IF e.saveAsNewRaises THEN s1 ELSE NativeSave(s1, o.wb, s.path),
                          "returned", NoneV, NoneV,
                          o.log \o <<"alerts_off">> \o Call("SaveAs", e.saveAsNewRaises)
                                \o <<"alerts_on">>)
              ELSE Result(s1, "returned", NoneV, NoneV, o.log)

-----------------------------------------------------------------------------
(* Session._safe_save *)

ToExcelOutcomes == {"ok", "raises_untouched", "raises_partial"}

\* DataFrame.to_excel(path): raises at once for an extension without a writer.
ToExcelOutcome(s, e) ==
    IF ~HasExcelWriter(s.path) THEN "raises_untouched" ELSE e.toExcel

\* Lines 98-102.  A document that was never saved carries the host's default
\* name "Book<n>"; one opened from or saved to a path carries that file's
\* name, which the prefix test reads as well.
NeedSaveAs(s) ==
    s.path # NoneV /\ s.wb # NoHandle /\ s.docs[s.wb].name \in TempNames

\* First attempt (lines 97-106): the document's name is read from the host;
\* then SaveAs for a temp-named document, else a plain save.  When the read
\* of the name raises, neither is issued.  With no document there is no host
\* to read from, and the attribute access of line 106 raises at once.
FirstSave(s, e) ==
    IF s.wb = NoHandle
    THEN [s |-> s, raised |-> TRUE, log |-> <<>>]
    ELSE IF e.nameRaises
    THEN [s |-> s, raised |-> TRUE, log |-> Call("wb.name", TRUE)]
    ELSE IF NeedSaveAs(s)
    THEN [s |-> IF e.saveRaises THEN s ELSE NativeSave(s, s.wb, s.path),
          raised |-> e.saveRaises,
          log |-> Call("wb.name", FALSE) \o Call("SaveAs", e.saveRaises)]
    ELSE [s |-> IF e.saveRaises THEN s
                ELSE IF s.path # NoneV THEN NativeSave(s, s.wb, s.path)
                ELSE SaveInPlace(s, s.wb),
          raised |-> e.saveRaises,
          log |-> Call("wb.name", FALSE) \o Call("save", e.saveRaises)]

\* Final attempt (lines 108-112): an explicit SaveAs to the absolute path.
RetrySave(s, e) ==
    IF s.wb = NoHandle \/ s.path = NoneV
    THEN [s |-> s, raised |-> TRUE, log |-> <<>>]
    ELSE [s |-> IF e.retryRaises THEN s ELSE NativeSave(s, s.wb, s.path),
          raised |-> e.retryRaises, log |-> Call("SaveAs", e.retryRaises)]

\* Mutant: both calls in one try, so a raising close skips the quit.
ReleaseHost_one_try(s, e) ==
    LET s1 == IF s.wb # NoHandle THEN CloseDoc(s, s.wb) ELSE s
        skip == s.wb # NoHandle /\ e.closeRaises
        s2 == IF s.app # NoHandle /\ ~skip THEN QuitApp(s1, s.app, e.quitRaises) ELSE s1
    IN  [s |-> ClearHandles(s2),
         log |-> (IF s.wb # NoHandle THEN Call("wb.close", e.closeRaises) ELSE <<>>)
                 \o (IF s.app # NoHandle /\ ~skip
                     THEN Call("app.quit", e.quitRaises) ELSE <<>>)
                 \o <<"clear">>]

\* Lines 118-132: close the document, quit the host, clear the handles.
\* Each of the two calls sits in its own try/except, and the handles are
\* cleared in the finally.
ReleaseHost(s, e) ==
    LET s1 == IF s.wb # NoHandle THEN CloseDoc(s, s.wb) ELSE s
        s2 == IF s.app # NoHandle THEN QuitApp(s1, s.app, e.quitRaises) ELSE s1
    IN  [s |-> ClearHandles(s2),
         log |-> (IF s.wb # NoHandle THEN Call("wb.close", e.closeRaises) ELSE <<>>)
                 \o (IF s.app # NoHandle THEN Call("app.quit", e.quitRaises) ELSE <<>>)
                 \o <<"clear">>]

\* Mutant: the fallback reports success whatever the write did.
Fallback_always_true(s, e) ==
    IF s.df # NoData /\ s.path # NoneV
    THEN LET t == ToExcelOutcome(s, e) IN
         [s |-> IF t = "ok" THEN [s EXCEPT !.fs[s.path] = FlatFile(s.df)]
                ELSE IF t = "raises_partial" THEN [s EXCEPT !.fs[s.path] = PartialFile]
                ELSE s,
          ret |-> TRUE, log |-> Call("to_excel", t # "ok")]
    ELSE [s |-> s, ret |-> TRUE, log |-> <<>>]

\* Lines 135-143: one write of the in-memory dataset to the target path.
Fallback(s, e) ==
    IF s.df # NoData /\ s.path # NoneV
    THEN LET t == ToExcelOutcome(s, e) IN
         [s |-> IF t = "ok" THEN [s EXCEPT !.fs[s.path] = FlatFile(s.df)]
                ELSE IF t = "raises_partial" THEN [s EXCEPT !.fs[s.path] = PartialFile]
                ELSE s,
          ret |-> (t = "ok"), log |-> Call("to_excel", t # "ok")]
    ELSE [s |-> s, ret |-> FALSE, log |-> <<>>]

PyBool(b) == IF b THEN "True" ELSE "False"

safe_save(s, e) ==
    LET off == IF s.app # NoHandle THEN <<"alerts_off">> ELSE <<>>
        a   == FirstSave(s, e)
        b   == IF a.raised THEN RetrySave(a.s, e) ELSE a
        lg  == off \o a.log \o (IF a.raised THEN b.log ELSE <<>>)
    IN  IF ~b.raised
        THEN Result(b.s, "returned", "True", "True", lg \o <<"alerts_on">>)
        ELSE LET r == ReleaseHost(b.s, e)
                 f == Fallback(r.s, e)
             IN  Result(f.s, "returned", PyBool(f.ret), PyBool(f.ret), lg \o r.log \o f.log)

-----------------------------------------------------------------------------
(* excel_engine.write_dataframe_to_sheet, create_advanced_dashboard *)

\* Where a host call of write_dataframe_to_sheet raises, if one does: while
\* the sheet is looked up or added (lines 61-66, nothing changed yet), or when
\* the cells are written (line 67, the sheet added or cleared).
WriteOutcomes == {"ok", "raises_untouched", "raises_partway"}

\* Writes dataset d to the SourceData sheet of document w.  When the write of
\* the cells raises, the sheet has been added or cleared but holds no data.
write_dataframe_to_sheet(s, w, d, write) ==
    [s |-> IF write = "raises_untouched" THEN s
           ELSE [s EXCEPT !.docs[w].src = IF write = "ok" THEN d ELSE NoData,
                          !.docs[w].unsaved = TRUE],
     raised |-> (write # "ok"), log |-> Call("write_sheet", write # "ok")]

\* Where an uncontained host call of the builder raises, if one does: while
\* the dashboard sheet is looked up or added (lines 208-212, nothing changed
\* yet), after that, or at the read of the sheet's name the builder returns
\* (line 410, the sheet built).
BuildOutcomes == {"ok", "raises_untouched", "raises_partway", "raises_built"}

\* Builds the dashboard sheet into document w.  The sheet is created or
\* cleared first; an uncontained host failure after that leaves it half
\* built, unless it is the last host call that raises.
create_advanced_dashboard(s, w, build) ==
    [s |-> IF build = "raises_untouched" THEN s
           ELSE [s EXCEPT !.docs[w].dash = IF build \in {"ok", "raises_built"}
                                           THEN "complete" ELSE "partial",
                          !.docs[w].unsaved = TRUE,
                          !.docs[w].unsavedDash = TRUE],
     raised |-> (build # "ok"), log |-> Call("build", build # "ok")]

-----------------------------------------------------------------------------
(* Session.write_to_excel, Session.create_dashboard *)

\* Mutant: write_to_excel opens the document before it looks at the dataset.
write_to_excel_unguarded(s, e) ==
    LET o == open_excel(s, e) IN
    IF o.outcome = "raised"
    THEN Raised(o.s, "HostError", NoneV, o.log)
    ELSE IF s.df = NoData
    THEN Raised(o.s, "RuntimeError", NoneV, o.log)
    ELSE LET w == write_dataframe_to_sheet(o.s, o.s.wb, o.s.df, e.write) IN
         IF w.raised
         THEN Raised(w.s, "HostError", NoneV, o.log \o w.log)
         ELSE Result(w.s, "returned", "SourceData", NoneV, o.log \o w.log)

\* Mutant: the caller ignores the result of _safe_save.
SaveOutcome_ignored(ok) == "returned"

\* Lines 163-165 and 179-181: what the caller does with _safe_save's result.
SaveOutcome(ok) == IF ok = "True" THEN "returned" ELSE "raised"

write_to_excel(s, e) ==
    IF s.df = NoData
    THEN Raised(s, "RuntimeError", NoneV, <<>>)
    ELSE LET o == open_excel(s, e) IN
         IF o.outcome = "raised"
         THEN Raised(o.s, "HostError", NoneV, o.log)
         ELSE LET w == write_dataframe_to_sheet(o.s, o.s.wb, o.s.df, e.write) IN
              IF w.raised
              THEN Raised(w.s, "HostError", NoneV, o.log \o w.log)
              ELSE IF s.path = NoneV
              THEN Result(w.s, "returned", "SourceData", NoneV, o.log \o w.log)
              ELSE LET v == safe_save(w.s, e) IN
                   IF SaveOutcome(v.value) = "returned"
                   THEN Result(v.s, "returned", "SourceData", v.value,
                               o.log \o w.log \o v.log)
                   ELSE Raised(v.s, "RuntimeError", v.value, o.log \o w.log \o v.log)

\* os.startfile after a successful save changes nothing in the session and
\* its failure is swallowed; it is left out.
create_dashboard(s, e) ==
    IF s.df = NoData
    THEN Raised(s, "RuntimeError", NoneV, <<>>)
    ELSE LET o == open_excel(s, e) IN
         IF o.outcome = "raised"
         THEN Raised(o.s, "HostError", NoneV, o.log)
         ELSE LET b == create_advanced_dashboard(o.s, o.s.wb, e.build) IN
              IF b.raised
              THEN Raised(b.s, "HostError", NoneV, o.log \o b.log)
              ELSE LET v == safe_save(b.s, e) IN
                   IF SaveOutcome(v.value) = "returned"
                   THEN Result(v.s, "returned", "AutoDashboard", v.value,
                               o.log \o b.log \o v.log)
                   ELSE Raised(v.s, "RuntimeError", v.value, o.log \o b.log \o v.log)

-----------------------------------------------------------------------------
(* excel_engine.save_and_close, Session.close *)

\* Saves, then closes the document and quits the host whether or not the
\* save raised; the save's exception propagates.
save_and_close(s, e) ==
    LET s1 == IF e.saveRaises THEN s
              ELSE IF s.path # NoneV THEN NativeSave(s, s.wb, s.path)
              ELSE SaveInPlace(s, s.wb)
        s2 == QuitApp(CloseDoc(s1, s.wb), s.app, e.quitRaises)
    IN  [s |-> s2, raised |-> e.saveRaises,
         log |-> Call("save", e.saveRaises) \o Call("wb.close", e.closeRaises)
                 \o Call("app.quit", e.quitRaises)]

\* Mutant: close without its guard, failing on the missing handles.
close_unguarded(s, e) ==
    IF s.app # NoHandle /\ s.wb # NoHandle
    THEN LET c == save_and_close(s, e) IN
         Result(ClearHandles(c.s), "returned", NoneV, NoneV, c.log)
    ELSE Raised(s, "AttributeError", NoneV, <<"save">>)

close(s, e) ==
    IF s.app # NoHandle /\ s.wb # NoHandle
    THEN LET c == save_and_close(s, e) IN
         Result(ClearHandles(c.s), "returned", NoneV, NoneV, c.log)
    ELSE Result(ClearHandles(s), "returned", NoneV, NoneV, <<>>)

-----------------------------------------------------------------------------
(* Session.load, Session.clean *)

\* core.load_data reads the file back as a dataset; a file that was only
\* partly written does not parse.
load_data(s, p, parseRaises) ==
    IF parseRaises \/ s.fs[p].kind = "partial"
    THEN [raised |-> TRUE, df |-> NoData]
    ELSE [raised |-> FALSE, df |-> s.fs[p].data]

\* Mutant: load stores the path before it checks that the file exists.
load_path_first(s, p, parseRaises) ==
    IF ~Exists(s, p)
    THEN Raised([s EXCEPT !.path = p], "FileNotFoundError", NoneV, <<>>)
    ELSE LET d == load_data(s, p, parseRaises) IN
         IF d.raised
         THEN Raised(s, "ParseError", NoneV, <<>>)
         ELSE Result([s EXCEPT !.df = d.df, !.path = p], "returned", "df", NoneV, <<>>)

\* Mutant: load drops the previous dataset before it reads the new one.
load_drops_first(s, p, parseRaises) ==
    IF ~Exists(s, p)
    THEN Raised(s, "FileNotFoundError", NoneV, <<>>)
    ELSE LET d == load_data(s, p, parseRaises) IN
         IF d.raised
         THEN Raised([s EXCEPT !.df = NoData], "ParseError", NoneV, <<>>)
         ELSE Result([s EXCEPT !.df = d.df, !.path = p], "returned", "df", NoneV, <<>>)

load(s, p, parseRaises) ==
    IF ~Exists(s, p)
    THEN Raised(s, "FileNotFoundError", NoneV, <<>>)
    ELSE LET d == load_data(s, p, parseRaises) IN
         IF d.raised
         THEN Raised(s, "ParseError", NoneV, <<>>)
         ELSE Result([s EXCEPT !.df = d.df, !.path = p], "returned", "df", NoneV, <<>>)

\* core.clean_data on the session's dataset: it raises on equal headers
\* (core.py line 81, df[c] is then a DataFrame, which has no dtype).
CleanRaises(d) == d.id = ClashData.id

\* Lines 45-49: an exception of clean_data leaves clean before self.df is
\* assigned.
clean(s) ==
    IF s.df = NoData
    THEN Raised(s, "RuntimeError", NoneV, <<>>)
    ELSE IF CleanRaises(s.df)
    THEN Raised(s, "AttributeError", NoneV, <<>>)
    ELSE Result([s EXCEPT !.df.cleaned = TRUE], "returned", "df", NoneV, <<>>)

-----------------------------------------------------------------------------
(* Tabular datasets: core.py and planner.py work on a pandas DataFrame *)

\* Bounds of the datasets the pure functions are applied to.
MaxRows == 3

\* Numbers are kept as integers in units of 1/Scale, so that the mean and the
\* median of up to MaxRows whole numbers are exact.
RECURSIVE Factorial(_)
Factorial(n) == IF n <= 1 THEN 1 ELSE n * Factorial(n - 1)

Scale == Factorial(MaxRows + 1)

\* A text is a sequence of characters.  The symbol "2024-01-05" stands for
\* the ten characters of a date written year-month-day.
IsoDate == "2024-01-05"

IsSpace(c) == c \in {" ", "\n", "\r", "\t"}

Digits == <<"0", "1", "2", "3", "4", "5", "6", "7", "8", "9">>

IsDigit(c) == \E i \in 1..Len(Digits) : Digits[i] = c

DigitVal(c) == (CHOOSE i \in 1..Len(Digits) : Digits[i] = c) - 1

\* str.strip()
RECURSIVE LStrip(_)
LStrip(t) == IF t # <<>> /\ IsSpace(Head(t)) THEN LStrip(Tail(t)) ELSE t

RECURSIVE RStrip(_)
RStrip(t) ==
    IF t # <<>> /\ IsSpace(t[Len(t)]) THEN RStrip(SubSeq(t, 1, Len(t) - 1)) ELSE t

Strip(t) == RStrip(LStrip(t))

\* A cell: missing (None, NaN, NaT), a number, a text, or a timestamp.
NA == [k |-> "na", t |-> <<>>, v |-> 0]

Num(v) == [k |-> "num", t |-> <<>>, v |-> v]

Str(t) == [k |-> "str", t |-> t, v |-> 0]

Stamp(v) == [k |-> "date", t |-> <<>>, v |-> v]

IsNA(c) == c.k = "na"

\* A column: its header, its dtype and one cell per row.  A frame: its
\* columns in order and the length n of its index.
Column(name, dtype, cells) == [name |-> name, dtype |-> dtype, cells |-> cells]

Frame(cols, n) == [cols |-> cols, n |-> n]

NumberDtypes == {"int64", "float64"}

Names(f) == [i \in 1..Len(f.cols) |-> f.cols[i].name]

Range(seq) == {seq[i] : i \in 1..Len(seq)}

\* The elements of seq at the positions in S, in order.
Pick(seq, S) ==
    LET F[i \in 0..Len(seq)] ==
            IF i = 0 THEN <<>>
            ELSE IF i \in S THEN Append(F[i - 1], seq[i]) ELSE F[i - 1]
    IN  F[Len(seq)]

NotNull(cells) == Pick(cells, {i \in 1..Len(cells) : ~IsNA(cells[i])})

\* DataFrame.dropna(how="all"): rows in which every column is missing.
DropEmptyRows(f) ==
    LET keep == {i \in 1..f.n : \E j \in 1..Len(f.cols) : ~IsNA(f.cols[j].cells[i])}
    IN  Frame([j \in 1..Len(f.cols) |->
                  [f.cols[j] EXCEPT !.cells = Pick(@, keep)]],
              Cardinality(keep))

\* DataFrame.dropna(axis=1, how="all"): columns in which every row is missing.
DropEmptyCols(f) ==
    Frame(Pick(f.cols, {j \in 1..Len(f.cols) : NotNull(f.cols[j].cells) # <<>>}), f.n)

-----------------------------------------------------------------------------
(* core.normalize_headers, core.clean_data *)

\* str(c).strip().replace("\n", " ").replace("\r", " ")
NormalizeHeader(name) ==
    LET u == Strip(name) IN
    [i \in 1..Len(u) |-> IF u[i] \in {"\n", "\r"} THEN " " ELSE u[i]]

normalize_headers(f) ==
    [f EXCEPT !.cols = [j \in 1..Len(f.cols) |->
                           [f.cols[j] EXCEPT !.name = NormalizeHeader(@)]]]

\* The label of column j is the label of another column too.
Repeated(f, j) == \E k \in 1..Len(f.cols) : k # j /\ f.cols[k].name = f.cols[j].name

\* Lines 75-77: v.strip() for every text of every object column.  Under a
\* repeated label df[c] is a DataFrame, apply hands the lambda whole columns
\* and nothing is stripped.
TrimStrings(f) ==
    [f EXCEPT !.cols = [j \in 1..Len(f.cols) |->
        IF f.cols[j].dtype = "object" /\ ~Repeated(f, j)
        THEN [f.cols[j] EXCEPT !.cells = [i \in 1..Len(@) |->
                 IF @[i].k = "str" THEN Str(Strip(@[i].t)) ELSE @[i]]]
        ELSE f.cols[j]]]

\* str.replace(r"[,$]", "", regex=True)
RemoveSeparators(t) == SelectSeq(t, LAMBDA c : c \notin {",", "$"})

RECURSIVE DecVal(_)
DecVal(d) ==
    IF d = <<>> THEN 0
    ELSE 10 * DecVal(SubSeq(d, 1, Len(d) - 1)) + DigitVal(d[Len(d)])

\* pd.to_numeric(errors="coerce") of one text: a whole number, with an
\* optional sign and surrounding blanks, or missing.
ParseNumber(t) ==
    LET u   == Strip(t)
        neg == u # <<>> /\ Head(u) = "-"
        d   == IF neg THEN Tail(u) ELSE u
    IN  IF d # <<>> /\ \A i \in 1..Len(d) : IsDigit(d[i])
        THEN Num((IF neg THEN -1 ELSE 1) * DecVal(d) * Scale)
        ELSE NA

\* Line 83: the column as text with separators removed, parsed as numbers.
\* A missing cell becomes the text "nan", which parses to missing.
ToNumeric(cells) ==
    [i \in 1..Len(cells) |->
        IF cells[i].k = "str" THEN ParseNumber(RemoveSeparators(cells[i].t))
        ELSE IF cells[i].k = "num" THEN cells[i]
        ELSE NA]

\* Series.notnull().mean() > 1/2, false for a column without rows.
MostlyNotNull(cells) == 2 * Len(NotNull(cells)) > Len(cells)

NumericDtype(cells) ==
    IF \E i \in 1..Len(cells) : IsNA(cells[i]) THEN "float64" ELSE "int64"

\* Lines 81-86.
CoerceColumn(col) ==
    IF col.dtype = "object" /\ MostlyNotNull(ToNumeric(col.cells))
    THEN Column(col.name, NumericDtype(ToNumeric(col.cells)), ToNumeric(col.cells))
    ELSE col

RECURSIVE SumSeq(_)
SumSeq(s) == IF s = <<>> THEN 0 ELSE Head(s) + SumSeq(Tail(s))

RECURSIVE SortNums(_)
SortNums(s) ==
    IF s = <<>> THEN <<>>
    ELSE LET r == SortNums(Tail(s))
             k == Cardinality({i \in 1..Len(r) : r[i] < Head(s)})
         IN  SubSeq(r, 1, k) \o <<Head(s)>> \o SubSeq(r, k + 1, Len(r))

Values(cells) == LET c == NotNull(cells) IN [i \in 1..Len(c) |-> c[i].v]

Median(vals) ==
    LET s == SortNums(vals)
        n == Len(s)
    IN  IF n % 2 = 1 THEN s[(n + 1) \div 2] ELSE (s[n \div 2] + s[n \div 2 + 1]) \div 2

Mean(vals) == SumSeq(vals) \div Len(vals)

FillStrategies == {"median", "mean", "zero"}

\* Mutant: every missing number becomes zero, whatever the strategy.
FillColumn_zero(col, fill) ==
    IF col.dtype \notin NumberDtypes THEN col
    ELSE [col EXCEPT !.cells = [i \in 1..Len(@) |-> IF IsNA(@[i]) THEN Num(0) ELSE @[i]]]

\* Lines 89-96: the fill value of a numeric column; none (fillna(NaN)) for
\* the median or mean of a column without values.
FillColumn(col, fill) ==
    LET vals == Values(col.cells) IN
    IF col.dtype \notin NumberDtypes \/ (fill # "zero" /\ vals = <<>>)
    THEN col
    ELSE LET x == IF fill = "median" THEN Median(vals)
                  ELSE IF fill = "mean" THEN Mean(vals) ELSE 0
         IN  [col EXCEPT !.cells = [i \in 1..Len(@) |->
                                       IF IsNA(@[i]) THEN Num(x) ELSE @[i]]]

Distinct(seq) == \A i, j \in 1..Len(seq) : seq[i] = seq[j] => i = j

\* Mutant: the numeric fill runs before the coercion of texts.
CleanColumn_fill_first(col, fill) == CoerceColumn(FillColumn(col, fill))

\* Lines 81-96 for one column: coercion, then the fill.
CleanColumn(col, fill) == FillColumn(CoerceColumn(col), fill)

NoFrame == Frame(<<>>, 0)

\* df[c] is a DataFrame, without a dtype attribute, when two columns carry
\* the same header after normalisation: line 82 raises.
clean_data(f, fill) ==
    LET a == TrimStrings(normalize_headers(DropEmptyCols(DropEmptyRows(f)))) IN
    IF ~Distinct(Names(a))
    THEN [raised |-> TRUE, error |-> "AttributeError", frame |-> NoFrame]
    ELSE [raised |-> FALSE, error |-> NoneV,
          frame |-> [a EXCEPT !.cols = [j \in 1..Len(@) |-> CleanColumn(@[j], fill)]]]

-----------------------------------------------------------------------------
(* core._try_parse_dates, core.detect_column_types *)

DateFormats == <<"%Y-%m-%d", "%d-%m-%Y", "%m/%d/%Y", "%d/%b/%Y", "%Y/%m/%d">>

\* A year-month-day text parses under the first format and under pandas'
\* general parser ("any"); no other text of the model is a date.
ParseDate(t, fmt) ==
    IF t = <<IsoDate>> /\ fmt \in {"%Y-%m-%d", "any"} THEN Stamp(1) ELSE NA

\* pd.to_datetime(series, format=fmt, errors="coerce")
ToDatetime(cells, fmt) ==
    [i \in 1..Len(cells) |->
        IF cells[i].k = "str" THEN ParseDate(cells[i].t, fmt)
        ELSE IF cells[i].k = "date" THEN cells[i]
        ELSE NA]

\* Series.notnull().mean() > 0.6 and >= 0.6, false for a column without rows.
Above60(cells) == 5 * Len(NotNull(cells)) > 3 * Len(cells)

AtLeast60(cells) == Len(cells) > 0 /\ 5 * Len(NotNull(cells)) >= 3 * Len(cells)

try_parse_dates(cells) ==
    LET hits == {i \in 1..Len(DateFormats) : Above60(ToDatetime(cells, DateFormats[i]))}
    IN  IF hits # {}
        THEN ToDatetime(cells, DateFormats[CHOOSE i \in hits : \A j \in hits : i <= j])
        ELSE ToDatetime(cells, "any")

\* Mutant: a column that parses as dates is listed as categorical as well.
ColumnRoles_overlap(col) ==
    IF col.dtype \in NumberDtypes THEN {"numeric"}
    ELSE IF col.dtype = "datetime64" THEN {"date"}
    ELSE IF AtLeast60(try_parse_dates(col.cells)) THEN {"date", "categorical"}
    ELSE {"categorical"}

\* Lines 107-119: the lists one column is appended to.
ColumnRoles(col) ==
    IF col.dtype \in NumberDtypes THEN {"numeric"}
    ELSE IF col.dtype = "datetime64" THEN {"date"}
    ELSE IF AtLeast60(try_parse_dates(col.cells)) THEN {"date"}
    ELSE {"categorical"}

ColumnsWithRole(f, role) ==
    Pick(Names(f), {j \in 1..Len(f.cols) : role \in ColumnRoles(f.cols[j])})

detect_column_types(f) ==
    [date_cols        |-> ColumnsWithRole(f, "date"),
     numeric_cols     |-> ColumnsWithRole(f, "numeric"),
     categorical_cols |-> ColumnsWithRole(f, "categorical")]

-----------------------------------------------------------------------------
(* planner.py *)

\* None, as a column name.
NoName == <<"None">>

NoSpec == [none |-> TRUE]

MaxUnique == 20

MaxColumnChart == 6

MaxCharts == 3

HasColumn(f, name) == name \in Range(Names(f))

ColumnOf(f, name) == f.cols[CHOOSE j \in 1..Len(f.cols) : f.cols[j].name = name]

\* A name that is neither None nor the empty text.
Truthy(name) == name # NoName /\ name # <<>>

\* Series.nunique(): distinct non-missing values.
NUnique(cells) == Cardinality(Range(NotNull(cells)))

numeric_columns(f) ==
    Pick(Names(f), {j \in 1..Len(f.cols) : f.cols[j].dtype \in NumberDtypes})

\* Mutant: text columns of any cardinality above one.
categorical_columns_unbounded(f) ==
    Pick(Names(f), {j \in 1..Len(f.cols) :
                       /\ f.cols[j].dtype = "object"
                       /\ 1 < NUnique(f.cols[j].cells)})

categorical_columns(f) ==
    Pick(Names(f), {j \in 1..Len(f.cols) :
                       /\ f.cols[j].dtype = "object"
                       /\ 1 < NUnique(f.cols[j].cells)
                       /\ NUnique(f.cols[j].cells) <= MaxUnique})

date_columns(f) ==
    Pick(Names(f), {j \in 1..Len(f.cols) : f.cols[j].dtype = "datetime64"})

\* Mutant: no horizontal bars.
auto_chart_type_no_bar(col) ==
    IF col.dtype = "datetime64" THEN "line" ELSE "column"

auto_chart_type(col) ==
    IF col.dtype = "datetime64" THEN "line"
    ELSE IF NUnique(col.cells) <= MaxColumnChart THEN "column"
    ELSE "bar"

\* DataFrame.empty: no rows or no columns.
IsEmpty(f) == f.n = 0 \/ f.cols = <<>>

\* The texts of the cells, one after the other: the sum of an object column
\* of texts.
RECURSIVE Concat(_)
Concat(cells) == IF cells = <<>> THEN <<>> ELSE Head(cells).t \o Concat(Tail(cells))

\* What lines 62-63 raise for the column, or NoneV.  A datetime column has
\* no sum (TypeError).  In an object column the missing cells count as 0 in
\* the sum: 0 + text is a TypeError; texts alone add up to one text, of which
\* float() raises ValueError unless it reads as a number, and then the mean
\* raises TypeError; a column without values sums to 0 and nothing raises.
KpiError(col) ==
    LET texts == NotNull(col.cells) IN
    IF col.dtype = "datetime64" THEN "TypeError"
    ELSE IF col.dtype # "object" \/ texts = <<>> THEN NoneV
    ELSE IF Len(texts) < Len(col.cells) THEN "TypeError"
    ELSE IF ParseNumber(Concat(texts)) = NA THEN "ValueError"
    ELSE "TypeError"

\* Lines 57-66.  The sum, mean, min and max skip missing values; the sum of
\* a column without values is 0, its mean, min and max are NaN.  There is no
\* check of the column's dtype: what raises is the arithmetic on its cells.
compute_basic_kpis(f, metric) ==
    LET col  == ColumnOf(f, metric)
        vals == Values(col.cells)
        s    == SortNums(vals)
    IN  IF KpiError(col) # NoneV
        THEN [raised |-> TRUE, error |-> KpiError(col), kpis |-> NoSpec]
        ELSE [raised |-> FALSE, error |-> NoneV,
              kpis |-> [KPI_Records |-> f.n,
                        KPI_Total   |-> Num(SumSeq(vals)),
                        KPI_Average |-> IF vals = <<>> THEN NA ELSE Num(Mean(vals)),
                        KPI_Min     |-> IF vals = <<>> THEN NA ELSE Num(s[1]),
                        KPI_Max     |-> IF vals = <<>> THEN NA ELSE Num(s[Len(s)])]]

\* Mutant: only the missing numeric column is checked.
PlanGuard_numeric_only(f) ==
    IF numeric_columns(f) = <<>> THEN "No numeric columns found" ELSE NoneV

\* Lines 80-88: the cause of the PlannerError raised before anything is
\* resolved, or NoneV.
PlanGuard(f) ==
    IF IsEmpty(f) THEN "Input DataFrame is empty"
    ELSE IF numeric_columns(f) = <<>> THEN "No numeric columns found"
    ELSE NoneV

\* Mutant: a supplied metric that is not a column falls back to the first
\* numeric column.
ResolveMetric_fallback(f, metric) ==
    IF HasColumn(f, metric) THEN metric ELSE numeric_columns(f)[1]

\* Line 90: metric or numeric_cols[0]
ResolveMetric(f, metric) ==
    IF Truthy(metric) THEN metric ELSE numeric_columns(f)[1]

\* Line 98.
ResolveDate(f, date_col) ==
    IF HasColumn(f, date_col) THEN date_col
    ELSE IF date_columns(f) # <<>> THEN date_columns(f)[1] ELSE NoName

\* Line 104.
ResolveCategory(f, category_col) ==
    IF HasColumn(f, category_col) THEN category_col
    ELSE IF categorical_columns(f) # <<>> THEN categorical_columns(f)[1] ELSE NoName

\* Mutant: the category pivot is never built.
BuildPivots_no_category(metric, date_col, category_col) ==
    (IF Truthy(date_col)
     THEN <<[name |-> "MetricByDate", sheet |-> "Pivot_MetricByDate",
             rows |-> <<date_col>>, values |-> <<<<metric, "sum">>>>,
             group_dates |-> TRUE]>>
     ELSE <<>>)
    \o <<[name |-> "MetricDistribution", sheet |-> "Pivot_MetricDistribution",
          rows |-> <<>>, values |-> <<<<metric, "count">>>>]>>

\* Lines 109-133.
BuildPivots(metric, date_col, category_col) ==
    (IF Truthy(date_col)
     THEN <<[name |-> "MetricByDate", sheet |-> "Pivot_MetricByDate",
             rows |-> <<date_col>>, values |-> <<<<metric, "sum">>>>,
             group_dates |-> TRUE]>>
     ELSE <<>>)
    \o (IF Truthy(category_col)
        THEN <<[name |-> "MetricByCategory", sheet |-> "Pivot_MetricByCategory",
                rows |-> <<category_col>>, values |-> <<<<metric, "sum">>>>]>>
        ELSE <<>>)
    \o <<[name |-> "MetricDistribution", sheet |-> "Pivot_MetricDistribution",
          rows |-> <<>>, values |-> <<<<metric, "count">>>>]>>

Chart(pivot, type, placeholder, title) ==
    [pivot |-> pivot, type |-> type, placeholder |-> placeholder, title |-> title]

\* Mutant: the date chart is built whether or not a date column resolved,
\* and the charts are numbered from the first placeholder on.
BuildCharts_unconditional(f, metric, date_col, category_col) ==
    <<Chart("MetricByDate", "line", "CHART1_TL", metric \o <<" Trend">>)>>
    \o (IF Truthy(category_col)
        THEN <<Chart("MetricByCategory", auto_chart_type(ColumnOf(f, category_col)),
                     "CHART2_TL", metric \o <<" by ">> \o category_col)>>
        ELSE <<>>)
    \o <<Chart("MetricDistribution", "column", "CHART1_TL", <<"Record Count">>)>>

\* Lines 138-161.  The words of a title stand for their characters.
BuildCharts(f, metric, date_col, category_col) ==
    (IF Truthy(date_col)
     THEN <<Chart("MetricByDate", auto_chart_type(ColumnOf(f, date_col)),
                  "CHART1_TL", metric \o <<" Trend">>)>>
     ELSE <<>>)
    \o (IF Truthy(category_col)
        THEN <<Chart("MetricByCategory", auto_chart_type(ColumnOf(f, category_col)),
                     "CHART2_TL", metric \o <<" by ">> \o category_col)>>
        ELSE <<>>)
    \o <<Chart("MetricDistribution", "column", "CHART3_TL", <<"Record Count">>)>>

\* Mutant: the date slicer first.
BuildSlicers_date_first(date_col, category_col) ==
    (IF Truthy(date_col) THEN <<date_col>> ELSE <<>>)
    \o (IF Truthy(category_col) THEN <<category_col>> ELSE <<>>)

\* Lines 166-170.
BuildSlicers(date_col, category_col) ==
    (IF Truthy(category_col) THEN <<category_col>> ELSE <<>>)
    \o (IF Truthy(date_col) THEN <<date_col>> ELSE <<>>)

\* The outcome of plan: the exception raised with its cause, or the spec; and
\* the metric as far as it was resolved.
PlanResult(error, cause, metric, spec) ==
    [error |-> error, cause |-> cause, metric |-> metric, spec |-> spec]

plan_transactional_dashboard(f, metric, date_col, category_col) ==
    IF PlanGuard(f) # NoneV
    THEN PlanResult("PlannerError", PlanGuard(f), NoName, NoSpec)
    ELSE LET m == ResolveMetric(f, metric) IN
         IF ~HasColumn(f, m)
         THEN PlanResult("PlannerError", "Metric column not found", NoName, NoSpec)
         ELSE LET d == ResolveDate(f, date_col)
                  c == ResolveCategory(f, category_col)
                  k == compute_basic_kpis(f, m)
              IN  IF k.raised
                  THEN PlanResult(k.error, "not numeric", m, NoSpec)
                  ELSE PlanResult(NoneV, NoneV, m,
                           [pattern    |-> "transactional",
                            metric     |-> m,
                            dimensions |-> [date |-> d, category |-> c],
                            pivots     |-> BuildPivots(m, d, c),
                            charts     |-> BuildCharts(f, m, d, c),
                            slicers    |-> BuildSlicers(d, c),
                            kpis       |-> k.kpis])

\* The record of one application of a pure function: the function, its
\* arguments, the frame it was applied to, the fill strategy of the
\* clean_data that produced that frame (NoneV for a dataset as given), and
\* what the function raised or returned.
NoRoles == [date_cols |-> <<>>, numeric_cols |-> <<>>, categorical_cols |-> <<>>]

NoOut == [op |-> "none", fill |-> NoneV, metric |-> NoName, date_col |-> NoName,
          category_col |-> NoName, before |-> NoFrame, cleaned |-> NoneV, error |-> NoneV,
          cause |-> NoneV, roles |-> NoRoles, resolved |-> NoName, spec |-> NoSpec]

\* A reminder manager as constructed on an absent store file (reminder.py
\* lines 87-95, 109), at time 0, with no reminder created yet.
NewManager ==
    [reminders |-> <<>>, file |-> <<>>, task |-> NoHandle, running |-> FALSE,
     lock |-> NoHandle, waiters |-> <<>>]

\* No stop() is in flight.
NoStop == [task |-> NoHandle, shutdown |-> FALSE]

NoManager ==
    /\ mgr = NewManager
    /\ tasks = <<>>
    /\ stopper = NoStop
    /\ clock = 0
    /\ fired = <<>>
    /\ made = <<>>
    /\ deleted = {}
    /\ deletes = 0

\* LauncherApp.__init__: no run in progress, the Run button enabled, the
\* main thread in the main loop.
NewLauncher ==
    [running |-> FALSE, run_btn |-> "normal", dialog |-> "none", workers |-> <<>>,
     main |-> "loop"]

\* No run of the dashboard builder yet.
NoRender == [op |-> "none", faults |-> {}, log |-> <<>>, raised |-> FALSE]

-----------------------------------------------------------------------------
(* Callers: any client of the API, LauncherApp._run_pipeline, example_flow *)

Modes == {"api", "gui", "cli"}

Pipeline == <<"load", "clean", "write_to_excel", "create_dashboard", "close", "done">>

After(op) == Pipeline[(CHOOSE i \in 1..5 : Pipeline[i] = op) + 1]

\* _run_pipeline catches every error of the four stages and closes the
\* session in its finally; example_flow has no handler, so the error leaves it.
NextPc(op, outcome) ==
    IF mode = "api" THEN "api"
    ELSE IF outcome = "raised"
    THEN IF mode = "gui" THEN "close" ELSE "propagated"
    ELSE After(op)

Allowed(op) == IF mode = "api" THEN calls < MaxCalls ELSE pc = op

Step(op, arg, r) ==
    /\ df' = r.s.df
    /\ path' = r.s.path
    /\ app' = r.s.app
    /\ wb' = r.s.wb
    /\ fs' = r.s.fs
    /\ hosts' = r.s.hosts
    /\ docs' = r.s.docs
    /\ last' = [op |-> op, arg |-> arg, outcome |-> r.outcome, value |-> r.value,
                saveRet |-> r.saveRet, error |-> r.error, log |-> r.log]
    /\ pc' = NextPc(op, r.outcome)
    /\ failed' = (failed \/ (mode # "api" /\ r.outcome = "raised"))
    /\ calls' = calls + 1
    /\ UNCHANGED <<mode, frame, out, render, reminderVars, launcher>>

\* What raises during one operation.  Only the choices the operation can
\* observe are enumerated: a retry is chosen only when the first save raises,
\* the fallback's outcome only when the retry raises as well, and so on.
Default == [open |-> "ok", saveAsNewRaises |-> FALSE, write |-> "ok",
            build |-> "ok", nameRaises |-> FALSE,
            saveRaises |-> FALSE, retryRaises |-> FALSE,
            closeRaises |-> FALSE, quitRaises |-> FALSE, toExcel |-> "ok"]

OpenEnv ==
    IF app # NoHandle /\ wb # NoHandle
    THEN {Default}
    ELSE {[Default EXCEPT !.open = o] : o \in OpenOutcomes}
         \cup (IF path # NoneV /\ fs[path] = NoFile
               THEN {[Default EXCEPT !.saveAsNewRaises = TRUE]} ELSE {})

SaveEnv(base) ==
    {base, [base EXCEPT !.saveRaises = TRUE], [base EXCEPT !.nameRaises = TRUE]}
    \cup {[base EXCEPT !.nameRaises = n, !.saveRaises = ~n, !.retryRaises = TRUE,
                       !.closeRaises = c, !.quitRaises = q, !.toExcel = t] :
             n \in BOOLEAN, c \in BOOLEAN, q \in BOOLEAN, t \in ToExcelOutcomes}

CloseEnv ==
    IF app # NoHandle /\ wb # NoHandle
    THEN {[Default EXCEPT !.saveRaises = a, !.closeRaises = c, !.quitRaises = q] :
             a \in BOOLEAN, c \in BOOLEAN, q \in BOOLEAN}
    ELSE {Default}

Load ==
    /\ Allowed("load")
    /\ \E p \in DOMAIN fs, parseRaises \in BOOLEAN :
          /\ mode # "api" => p = path
          /\ Step("load", p, load(State, p, parseRaises))

Clean ==
    /\ Allowed("clean")
    /\ Step("clean", NoneV, clean(State))

OpenExcel ==
    /\ Allowed("open_excel")
    /\ \E e \in OpenEnv : Step("open_excel", NoneV, open_excel(State, e))

WriteToExcel ==
    /\ Allowed("write_to_excel")
    /\ \E o \in OpenEnv :
          \E e \in {[o EXCEPT !.write = w] : w \in WriteOutcomes \ {"ok"}} \cup SaveEnv(o) :
             Step("write_to_excel", NoneV, write_to_excel(State, e))

CreateDashboard ==
    /\ Allowed("create_dashboard")
    /\ \E o \in OpenEnv :
          \E e \in {[o EXCEPT !.build = b] : b \in BuildOutcomes \ {"ok"}} \cup SaveEnv(o) :
             Step("create_dashboard", NoneV, create_dashboard(State, e))

Close ==
    /\ Allowed("close")
    /\ \E e \in CloseEnv : Step("close", NoneV, close(State, e))

\* A new session on a file system over the given paths.
InitOn(paths) ==
    /\ mode \in Modes
    /\ fs \in [paths -> {NoFile, EmptyInputFile, ClashInputFile}
                          \cup {InputFile(p) : p \in paths}]
    /\ \A p \in paths : fs[p] \in {NoFile, InputFile(p)}
                             \cup (IF p = "b.csv" THEN {EmptyInputFile, ClashInputFile}
                                   ELSE {})
    /\ path \in {NoneV} \cup paths
    /\ mode # "api" => path # NoneV /\ fs[path] # NoFile
    /\ df = NoData
    /\ app = NoHandle
    /\ wb = NoHandle
    /\ hosts = <<>>
    /\ docs = <<>>
    /\ last = [op |-> "__init__", arg |-> path, outcome |-> "returned", value |-> NoneV,
               saveRet |-> NoneV, error |-> NoneV, log |-> <<>>]
    /\ pc = IF mode = "api" THEN "api" ELSE "load"
    /\ failed = FALSE
    /\ calls = 0
    /\ frame = NoFrame
    /\ out = NoOut
    /\ render = NoRender
    /\ NoManager
    /\ launcher = NewLauncher

Init == InitOn(Paths)

Next ==
    \/ Load
    \/ Clean
    \/ OpenExcel
    \/ WriteToExcel
    \/ CreateDashboard
    \/ Close

Spec == Init /\ [][Next]_vars

\* The same session where a target file may be named like a new document.
BookInit == InitOn(BookPaths)

BookSpec == BookInit /\ [][Next]_vars

-----------------------------------------------------------------------------
(* The pure functions of core.py and planner.py applied to bounded datasets *)

sessionVars == <<df, path, app, wb, fs, hosts, docs, last, mode, pc, failed, calls>>

\* Texts of the cells of an object column: a word after a blank, an amount
\* with currency sign and separator, a date.
Texts == {<<" ", "x">>, <<"$", "7", ",", "0">>, <<IsoDate>>}

TextCells == {Str(t) : t \in Texts} \cup {NA}

\* Headers: a plain one, one that needs trimming (and then equals the
\* numeric column's), one with a line break inside.
TextHeaders == {<<"c">>, <<" ", "n", "\n">>}

NumHeader == <<"n">>

DayHeader == <<"d", "\n", "t">>

\* Datasets as a parser returns them: an object column of texts, alone or
\* beside a numeric column.
TextFrames ==
    UNION {
        {Frame(<<Column(h, "object", c)>>, n) :
            h \in TextHeaders, c \in [1..n -> TextCells]}
        \cup
        {Frame(<<Column(h, "object", c), Column(NumHeader, NumericDtype(v), v)>>, n) :
            h \in TextHeaders, c \in [1..n -> TextCells],
            v \in [1..n -> {Num(2 * Scale), NA}]}
        : n \in 0..MaxRows}

\* Datasets of typed columns, in the order numeric, object, datetime, each
\* present or not, one row shorter than the text datasets.
TypedRows == MaxRows - 1

TypedFrames ==
    UNION {
        {Frame((IF hasN THEN <<Column(NumHeader, "int64", v)>> ELSE <<>>)
               \o (IF hasC THEN <<Column(<<"c">>, "object", c)>> ELSE <<>>)
               \o (IF hasD THEN <<Column(DayHeader, "datetime64", d)>> ELSE <<>>), n) :
            hasN \in BOOLEAN, hasC \in BOOLEAN, hasD \in BOOLEAN,
            v \in [1..n -> {Num(Scale), Num(3 * Scale)}],
            c \in [1..n -> {Str(<<"x">>), Str(<<"y">>), NA}],
            d \in [1..n -> {Stamp(1), NA}]}
        : n \in {0, TypedRows}}

\* A text of i characters: i different texts for i different lengths.
Word(i) == [j \in 1..i |-> "w"]

\* Numbers of distinct values on both sides of the planner's two thresholds.
Cardinalities == {MaxColumnChart, MaxColumnChart + 1, MaxUnique, MaxUnique + 1}

\* Long datasets: a text column of k rows and k distinct values, a second
\* text column of two values (present or not), a numeric column of k
\* distinct values.
LongFrames ==
    {Frame(<<Column(<<"c">>, "object", [i \in 1..k |-> Str(Word(i))])>>
           \o (IF hasE
               THEN <<Column(<<"e">>, "object",
                             [i \in 1..k |-> Str(IF i = 1 THEN <<"x">> ELSE <<"y">>)])>>
               ELSE <<>>)
           \o <<Column(NumHeader, "int64", [i \in 1..k |-> Num(i * Scale)])>>, k) :
        k \in Cardinalities, hasE \in BOOLEAN}

\* The text column "1,200", "$300", "NA".
AmountsFrame ==
    Frame(<<Column(<<"c">>, "object",
                   <<Str(<<"1", ",", "2", "0", "0">>), Str(<<"$", "3", "0", "0">>),
                     Str(<<"N", "A">>)>>)>>, 3)

RawFrames == TextFrames \cup TypedFrames \cup LongFrames \cup {AmountsFrame}

\* Overrides a caller can pass to plan: none, a column of the dataset, or a
\* name that is not a column.
NameChoices(f) == {NoName, <<"z">>} \cup Range(Names(f))

\* Each function is applied to the dataset as given and to the result of
\* clean_data; plan takes its overrides on the dataset as given, for
\* datasets of up to TypedRows rows and for the long ones.
Applicable == out.op \in {"none", "clean_data"}

CleanedBy == IF out.op = "clean_data" /\ out.error = NoneV THEN out.fill ELSE NoneV

CleanData ==
    /\ Applicable
    /\ \E fill \in FillStrategies :
          LET r == clean_data(frame, fill) IN
          /\ out.op = "clean_data" => fill = out.fill
          /\ frame' = IF r.raised THEN frame ELSE r.frame
          /\ out' = [NoOut EXCEPT !.op = "clean_data", !.fill = fill,
                                  !.before = frame, !.cleaned = CleanedBy,
                                  !.error = r.error]
    /\ UNCHANGED <<sessionVars, render, reminderVars, launcher>>

DetectColumnTypes ==
    /\ Applicable
    /\ out' = [NoOut EXCEPT !.op = "detect_column_types", !.before = frame,
                            !.cleaned = CleanedBy,
                            !.roles = detect_column_types(frame)]
    /\ UNCHANGED <<frame, sessionVars, render, reminderVars, launcher>>

Overrides(f) == IF out.op = "none" THEN NameChoices(f) ELSE {NoName}

Plan ==
    /\ Applicable
    /\ frame.n <= TypedRows \/ frame.n > MaxRows
    /\ \E metric \in Overrides(frame), date_col \in Overrides(frame),
          category_col \in Overrides(frame) :
          LET r == plan_transactional_dashboard(frame, metric, date_col, category_col) IN
          out' = [NoOut EXCEPT !.op = "plan", !.metric = metric, !.date_col = date_col,
                               !.category_col = category_col, !.before = frame,
                               !.cleaned = CleanedBy,
                               !.error = r.error, !.cause = r.cause,
                               !.resolved = r.metric, !.spec = r.spec]
    /\ UNCHANGED <<frame, sessionVars, render, reminderVars, launcher>>

DataInit ==
    /\ frame \in RawFrames
    /\ out = NoOut
    /\ mode = "pure"
    /\ pc = "pure"
    /\ df = NoData
    /\ path = NoneV
    /\ app = NoHandle
    /\ wb = NoHandle
    /\ fs = [p \in Paths |-> NoFile]
    /\ hosts = <<>>
    /\ docs = <<>>
    /\ last = [op |-> "__init__", arg |-> NoneV, outcome |-> "returned", value |-> NoneV,
               saveRet |-> NoneV, error |-> NoneV, log |-> <<>>]
    /\ failed = FALSE
    /\ calls = 0
    /\ render = NoRender
    /\ NoManager
    /\ launcher = NewLauncher

DataNext ==
    \/ CleanData
    \/ DetectColumnTypes
    \/ Plan

DataSpec == DataInit /\ [][DataNext]_vars

-----------------------------------------------------------------------------
(* excel_engine.create_advanced_dashboard, host call by host call          *)
(*                                                                         *)
(* The builder is a straight line of calls into the host.  Each call is a  *)
(* HostCall: its name and the try blocks it stands in, outermost first.    *)
(* The calls that raise are an input (faults).  A raising call ends the    *)
(* innermost try block around it, whose handler makes no host call; a      *)
(* raising call outside every try block ends the builder.                  *)

HostCall(call, within) == [call |-> call, within |-> within]

\* Lines 208-220: the dashboard sheet, its title, the title's font.
MainCalls ==
    << HostCall("main.sheet", <<>>),
       HostCall("main.title", <<>>),
       HostCall("main.font", <<"main.font">>) >>

KpiNames == <<"kpi1", "kpi2", "kpi3", "kpi4">>

\* Lines 258-264 and _format_kpi_cell: label and value, their styling, the
\* border around the card.
KpiCalls(k) ==
    << HostCall(k \o ".value", <<k>>),
       HostCall(k \o ".format", <<k, k \o ".format">>),
       HostCall(k \o ".border", <<k \o ".border">>) >>

\* Lines 243-252: four cards for the first metric, else two counts.
KpiCount(metrics) == IF metrics # <<>> THEN 4 ELSE 2

RECURSIVE Flatten(_)
Flatten(seqs) == IF seqs = <<>> THEN <<>> ELSE Head(seqs) \o Flatten(Tail(seqs))

\* Lines 268-272: the hidden source sheet, written by write_dataframe_to_sheet
\* outside every try block.
SrcCalls ==
    << HostCall("src.write", <<>>),
       HostCall("src.hide", <<"src.hide">>) >>

\* One chart (lines 289-302, 312-325, 330-343, 349-357): its aggregated
\* sheet is written by write_dataframe_to_sheet outside every try block,
\* hidden in a try block, the chart is added by _add_native_chart and styled
\* in try blocks.  "add" stands for AddChart2 and SetSourceData (lines 82-84).
ChartCalls(c) ==
    << HostCall(c \o ".write", <<>>),
       HostCall(c \o ".hide", <<c \o ".hide">>),
       HostCall(c \o ".add", <<c \o ".add">>),
       HostCall(c \o ".style", <<c \o ".style">>) >>

ChartNames == {"trend", "mo2", "cat", "scatter"}

\* The calls whose result a call is made on.  A chart is styled through the
\* object _add_native_chart returns: None when the adding raised (lines
\* 96-98), and then the styling statements (lines 295-298, 318-321, 336-339,
\* 355) raise inside their try blocks before they reach the host.
MadeOn(call) == {c \o ".add" : c \in {n \in ChartNames : call = n \o ".style"}}

PivotCalls_uncontained ==
    << HostCall("pivot.sheet", <<>>),
       HostCall("pivot.create", <<>>),
       HostCall("pivot.fields", <<"pivot.fields">>),
       HostCall("slicer.cache", <<"slicer">>),
       HostCall("slicer.add", <<"slicer">>),
       HostCall("slicer.style", <<"slicer", "slicer.style">>),
       HostCall("pivot.autofit", <<"pivot.autofit">>) >>

\* Lines 361-402: the pivot sheet, the pivot cache and table, its fields,
\* the slicer cache, the slicer control and its shape, all inside one try
\* block.
PivotCalls ==
    << HostCall("pivot.sheet", <<"pivot">>),
       HostCall("pivot.create", <<"pivot">>),
       HostCall("pivot.fields", <<"pivot", "pivot.fields">>),
       HostCall("slicer.cache", <<"pivot", "slicer">>),
       HostCall("slicer.add", <<"pivot", "slicer">>),
       HostCall("slicer.style", <<"pivot", "slicer", "slicer.style">>),
       HostCall("pivot.autofit", <<"pivot", "pivot.autofit">>) >>

\* Lines 405-410: the final autofit in its try block, and the read of the
\* sheet's name the builder returns, outside every try block.
FinalCalls ==
    << HostCall("main.autofit", <<"main.autofit">>),
       HostCall("main.name", <<>>) >>

First(seq, k) == SubSeq(seq, 1, IF Len(seq) < k THEN Len(seq) ELSE k)

\* Lines 225-235 with no override, as Session.create_dashboard calls the
\* builder: the metrics, the category field and the date field.
Fields(f) ==
    LET types == detect_column_types(f) IN
    [metrics        |-> First(types.numeric_cols, 2),
     num_cols       |-> types.numeric_cols,
     category_field |-> IF types.categorical_cols # <<>>
                        THEN Head(types.categorical_cols) ELSE NoName,
     date_field     |-> IF types.date_cols # <<>> THEN Head(types.date_cols) ELSE NoName]

\* The widgets the builder makes of a dataset, in the order of lines 255-402.
Widgets(f) ==
    LET d == Fields(f) IN
    SubSeq(KpiNames, 1, KpiCount(d.metrics))
    \o (IF Truthy(d.date_field) /\ d.metrics # <<>> THEN <<"trend">> ELSE <<>>)
    \o (IF Truthy(d.date_field) /\ Len(d.metrics) > 1 THEN <<"mo2">> ELSE <<>>)
    \o (IF Truthy(d.category_field) /\ d.metrics # <<>> THEN <<"cat">> ELSE <<>>)
    \o (IF Len(d.num_cols) >= 2 THEN <<"scatter">> ELSE <<>>)
    \o (IF Truthy(d.category_field) THEN <<"pivot", "slicer">> ELSE <<>>)

\* The host calls of one widget; the slicer's stand in the pivot's block.
WidgetCalls(w) ==
    IF w \in Range(KpiNames) THEN KpiCalls(w)
    ELSE IF w = "pivot" THEN PivotCalls
    ELSE IF w = "slicer" THEN <<>>
    ELSE ChartCalls(w)

\* The host calls of the widgets ws, in program order: the cards come before
\* the source sheet, the charts and the pivot after it.
WidgetProgram(ws) ==
    LET kpis == Pick(ws, {i \in 1..Len(ws) : ws[i] \in Range(KpiNames)})
        rest == Pick(ws, {i \in 1..Len(ws) : ws[i] \notin Range(KpiNames)})
    IN  MainCalls
        \o Flatten([i \in 1..Len(kpis) |-> WidgetCalls(kpis[i])])
        \o SrcCalls
        \o Flatten([i \in 1..Len(rest) |-> WidgetCalls(rest[i])])
        \o FinalCalls

\* The builder's host calls on a dataset, in program order.
DashboardCalls(f) ==
    CHOOSE prog \in {WidgetProgram(ws) : ws \in {Widgets(f)}} : TRUE

IsPrefix(a, b) == Len(a) <= Len(b) /\ SubSeq(b, 1, Len(a)) = a

\* The calls the builder reaches when the calls in faults raise.  A raising
\* call ends the innermost try block around it, and with it every later call
\* standing in that block; outside every try block it ends the builder, and
\* with it every later call.  A call made on the result of a call that raised
\* is not made.
Reached(prog, faults) ==
    {i \in 1..Len(prog) :
        /\ MadeOn(prog[i].call) \cap faults = {}
        /\ \A j \in 1..(i - 1) :
              prog[j].call \in faults => ~IsPrefix(prog[j].within, prog[i].within)}

\* The calls made, in program order, and whether an exception left the
\* builder: a reached call outside every try block raised.
RunCalls(prog, reached, faults) ==
    [log    |-> Pick([i \in 1..Len(prog) |-> prog[i].call], reached),
     raised |-> \E i \in reached : prog[i].call \in faults /\ prog[i].within = <<>>]

\* The builder on dataset f when the host calls in faults raise: the calls
\* it made, and whether an exception left it.  The program and the calls
\* reached are each worked out once.
build_dashboard(f, faults) ==
    CHOOSE r \in UNION {{[op     |-> "create_advanced_dashboard",
                          faults |-> faults,
                          log    |-> RunCalls(prog, reached, faults).log,
                          raised |-> RunCalls(prog, reached, faults).raised] :
                            reached \in {Reached(prog, faults)}} :
                                prog \in {DashboardCalls(f)}} : TRUE

\* Datasets of one row: two numeric columns, a text column, a date column,
\* each present or not.
RenderFrames ==
    {Frame((IF hasN THEN <<Column(NumHeader, "int64", <<Num(Scale)>>)>> ELSE <<>>)
           \o (IF hasM THEN <<Column(<<"m">>, "int64", <<Num(3 * Scale)>>)>> ELSE <<>>)
           \o (IF hasC THEN <<Column(<<"c">>, "object", <<Str(<<"x">>)>>)>> ELSE <<>>)
           \o (IF hasD THEN <<Column(<<"d">>, "datetime64", <<Stamp(1)>>)>> ELSE <<>>), 1) :
        hasN \in BOOLEAN, hasM \in BOOLEAN, hasC \in BOOLEAN, hasD \in BOOLEAN}

\* At most MaxFaults host calls raise in one run.
MaxFaults == 2

CallNames(prog) == {prog[i].call : i \in 1..Len(prog)}

RECURSIVE UpTo(_, _)
UpTo(names, k) ==
    IF k = 0 THEN {{}}
    ELSE LET smaller == UpTo(names, k - 1) IN
         smaller \cup {S \cup {c} : S \in smaller, c \in names}

FaultSets(prog) == UpTo(CallNames(prog), MaxFaults)

CreateAdvancedDashboard ==
    /\ render.op = "none"
    /\ \E prog \in {DashboardCalls(frame)} :
          \E faults \in FaultSets(prog) :
             render' = build_dashboard(frame, faults)
    /\ UNCHANGED <<frame, out, sessionVars, reminderVars, launcher>>

RenderInit ==
    /\ frame \in RenderFrames
    /\ out = NoOut
    /\ render = NoRender
    /\ mode = "pure"
    /\ pc = "pure"
    /\ df = NoData
    /\ path = NoneV
    /\ app = NoHandle
    /\ wb = NoHandle
    /\ fs = [p \in Paths |-> NoFile]
    /\ hosts = <<>>
    /\ docs = <<>>
    /\ last = [op |-> "__init__", arg |-> NoneV, outcome |-> "returned", value |-> NoneV,
               saveRet |-> NoneV, error |-> NoneV, log |-> <<>>]
    /\ failed = FALSE
    /\ calls = 0
    /\ NoManager
    /\ launcher = NewLauncher

RenderNext == CreateAdvancedDashboard

RenderSpec == RenderInit /\ [][RenderNext]_vars

-----------------------------------------------------------------------------
(* reminder.py: AsyncReminderManagerWindows                                *)
(*                                                                         *)
(* All coroutines run on one event loop: a coroutine runs without          *)
(* interruption from one await that suspends to the next.  _save and the   *)
(* sorting never suspend, so add_reminder, delete_reminder and shutdown    *)
(* run in one step once they hold the lock.  The loop task suspends in the *)
(* sleep and in the delivery of a notification (the subprocess of          *)
(* _notify_powershell), which it awaits holding the lock.  Whoever asks    *)
(* for the lock while it is held, or while another coroutine is in line    *)
(* for it, suspends and waits in line (asyncio.Lock is first come, first   *)
(* served).                                                                *)
(* Task.cancel() makes the task's next step raise CancelledError at the    *)
(* await it is suspended in; CancelledError is not an Exception.           *)

\* The variables of the session and of the pure functions.
otherVars == <<df, path, app, wb, fs, hosts, docs, last, mode, pc, failed, calls,
               frame, out, render, launcher>>

MaxReminders == 2

MaxTime == 2

MaxStarts == 2

MaxDeletes == 2

MaxCallbacks == 2

\* repeat_seconds: None (0), a period, and a negative number, which
\* add_reminder accepts as it accepts any other.
Repeats == {-1, 0, 2}

\* The ids asked of delete_reminder; the last one is the id of no reminder.
Ids == 1..(MaxReminders + 1)

\* Reminder.create: a fresh id, the due time, repeat_seconds (0 for None).
Reminder(id, when, repeat) == [id |-> id, when |-> when, repeat |-> repeat]

\* Reminder.to_json and Reminder.from_dict: the entry of the store file.
to_json(r) == [id |-> r.id, when_iso |-> r.when, repeat_seconds |-> r.repeat]

from_dict(d) == Reminder(d.id, d.when_iso, d.repeat_seconds)

\* list.sort(key=when), a stable sort.
RECURSIVE SortByWhen(_)
SortByWhen(rs) ==
    IF rs = <<>> THEN <<>>
    ELSE LET r == rs[Len(rs)]
             s == SortByWhen(SubSeq(rs, 1, Len(rs) - 1))
             k == Cardinality({i \in 1..Len(s) : s[i].when <= r.when})
         IN  SubSeq(s, 1, k) \o <<r>> \o SubSeq(s, k + 1, Len(s))

Without(rs, id) == SelectSeq(rs, LAMBDA r : r.id # id)

\* _load of a store file that exists and parses: its entries, sorted.
LoadStore(store) == SortByWhen([i \in 1..Len(store) |-> from_dict(store[i])])

\* _save: the store file holds what _reminders holds.  The write is taken
\* to succeed; a write that fails is caught and leaves the store as it was.
Saved(m) == [m EXCEPT !.file = [i \in 1..Len(m.reminders) |-> to_json(m.reminders[i])]]

\* The store files a manager is constructed from: up to MaxReminders
\* entries in any order.
Stores ==
    UNION {{[i \in 1..n |-> [id |-> i, when_iso |-> w[i], repeat_seconds |-> p[i]]] :
               w \in [1..n -> 0..MaxTime], p \in [1..n -> Repeats]} :
           n \in 0..MaxReminders}

\* A task created for _loop: its position, the time it read, the due
\* reminders of this tick and the one being delivered, a pending cancel;
\* for the reminder being delivered, the callbacks invoked and what the
\* notification awaited will do; whether a callback or a notification of
\* this tick has raised before.
NewTask ==
    [pc |-> "created", now |-> 0, due |-> <<>>, idx |-> 0, cancel |-> FALSE,
     ran |-> <<>>, notify |-> "none", failed |-> FALSE]

Suspended == {"created", "locking", "notifying", "sleeping"}

\* Task.done(): the coroutine returned, or an exception left it.
Ended == {"done", "crashed"}

\* A task between two ticks, and a task that has ended: the locals of the
\* last tick are gone.
Sleeping == [NewTask EXCEPT !.pc = "sleeping"]

Done(task) == [NewTask EXCEPT !.pc = "done", !.cancel = task.cancel]

Crashed == [NewTask EXCEPT !.pc = "crashed"]

\* No reminder has the id 0.
NoReminder == Reminder(0, 0, 0)

\* The reminder of id in the list rs; NoReminder when there is none.
Find(rs, id) ==
    IF \E i \in 1..Len(rs) : rs[i].id = id
    THEN rs[CHOOSE i \in 1..Len(rs) : rs[i].id = id]
    ELSE NoReminder

\* Calls of add_reminder, delete_reminder and list_reminders are made while
\* fewer than MaxWaiters coroutines wait for the lock, and one shutdown()
\* at a time.
MaxWaiters == 1

MaxShutdowns == 1

\* asyncio.Lock, as lines 128, 136, 237 and 296 use it.  lock is the loop
\* task that holds it (NoHandle: not locked); waiters are the coroutines in
\* line for it, first come first: a loop task t, a call of add_reminder with
\* the reminder r it created, a call of delete_reminder with the id t, a
\* call of list_reminders, or a call of shutdown.  A waiter is waiting, woken (the lock was released to
\* it and it has not run yet) or cancelled.
Waiter(who, t, r) == [who |-> who, t |-> t, r |-> r, state |-> "waiting"]

\* Lock.acquire takes the lock at once when it is not locked and nobody
\* that has not been cancelled is in line.
CanAcquire(m) ==
    /\ m.lock = NoHandle
    /\ \A i \in 1..Len(m.waiters) : m.waiters[i].state = "cancelled"

\* Otherwise the caller waits at the end of the line.
Wait(m, w) == [m EXCEPT !.waiters = Append(@, w)]

\* Lock._wake_up_first: the first in line is woken unless it is done already.
WakeUpFirst(m) ==
    IF m.waiters # <<>> /\ m.waiters[1].state = "waiting"
    THEN [m EXCEPT !.waiters[1].state = "woken"]
    ELSE m

\* Lock.release, at the end of every async with block.
Release(m) == WakeUpFirst([m EXCEPT !.lock = NoHandle])

\* The first in line has been woken and is a waiter of this kind; when it
\* runs it leaves the line and holds the lock.
Woken(who) ==
    /\ mgr.waiters # <<>>
    /\ mgr.waiters[1].state = "woken"
    /\ mgr.waiters[1].who = who

Resumed == [mgr EXCEPT !.waiters = Tail(@)]

\* The calls of this kind that wait for the lock.
Pending(who) == Cardinality({i \in 1..Len(mgr.waiters) : mgr.waiters[i].who = who})

\* Lines 129-131 and the release of the lock.
Added(m, r) == Release(Saved([m EXCEPT !.reminders = SortByWhen(Append(@, r))]))

\* Lines 124-133.  The reminder is created before the lock is asked for;
\* the call completes at once when the lock can be taken, else it waits.
AddReminder ==
    /\ Len(made) + Pending("add") < MaxReminders
    /\ \E when \in 0..MaxTime, repeat \in Repeats :
          LET r == Reminder(Len(made) + Pending("add") + 1, when, repeat) IN
          IF CanAcquire(mgr)
          THEN /\ mgr' = Added(mgr, r)
               /\ made' = Append(made, repeat)
               /\ fired' = Append(fired, 0)
          ELSE /\ Len(mgr.waiters) < MaxWaiters
               /\ mgr' = Wait(mgr, Waiter("add", 0, r))
               /\ UNCHANGED <<made, fired>>
    /\ UNCHANGED <<tasks, stopper, clock, deleted, deletes>>
    /\ UNCHANGED otherVars

\* Lines 128-133 of a call that waited for the lock.
AddEnd ==
    /\ Woken("add")
    /\ mgr' = Added(Resumed, mgr.waiters[1].r)
    /\ made' = Append(made, mgr.waiters[1].r.repeat)
    /\ fired' = Append(fired, 0)
    /\ UNCHANGED <<tasks, stopper, clock, deleted, deletes>>
    /\ UNCHANGED otherVars

\* Lines 137-141: the list without the reminder, saved when it was there.
Removed(m, id) ==
    IF Find(m.reminders, id) # NoReminder
    THEN Saved([m EXCEPT !.reminders = Without(@, id)])
    ELSE m

\* Mutant: delete_reminder without the lock.
DeleteReminder_unlocked ==
    /\ deletes + Pending("delete") < MaxDeletes
    /\ \E id \in Ids :
          /\ mgr' = Removed(mgr, id)
          /\ deletes' = deletes + 1
          /\ deleted' = IF Find(mgr.reminders, id) # NoReminder
                        THEN deleted \cup {id} ELSE deleted
    /\ UNCHANGED <<tasks, stopper, clock, fired, made>>
    /\ UNCHANGED otherVars

\* Lines 135-146.  The call completes at once when the lock can be taken,
\* else it waits.
DeleteReminder ==
    /\ deletes + Pending("delete") < MaxDeletes
    /\ \E id \in Ids :
          IF CanAcquire(mgr)
          THEN /\ mgr' = Release(Removed(mgr, id))
               /\ deletes' = deletes + 1
               /\ deleted' = IF Find(mgr.reminders, id) # NoReminder
                             THEN deleted \cup {id} ELSE deleted
          ELSE /\ Len(mgr.waiters) < MaxWaiters
               /\ mgr' = Wait(mgr, Waiter("delete", id, NoReminder))
               /\ UNCHANGED <<deletes, deleted>>
    /\ UNCHANGED <<tasks, stopper, clock, fired, made>>
    /\ UNCHANGED otherVars

\* Lines 136-146 of a call that waited for the lock.
DeleteEnd ==
    /\ Woken("delete")
    /\ mgr' = Release(Removed(Resumed, mgr.waiters[1].t))
    /\ deletes' = deletes + 1
    /\ deleted' = IF Find(mgr.reminders, mgr.waiters[1].t) # NoReminder
                  THEN deleted \cup {mgr.waiters[1].t} ELSE deleted
    /\ UNCHANGED <<tasks, stopper, clock, fired, made>>
    /\ UNCHANGED otherVars

\* Lines 148-150.  The list is read under the lock: the call returns at once
\* when the lock can be taken, else it waits.
ListReminders ==
    /\ IF CanAcquire(mgr)
       THEN mgr' = Release(mgr)
       ELSE /\ Len(mgr.waiters) < MaxWaiters
            /\ mgr' = Wait(mgr, Waiter("list", 0, NoReminder))
    /\ UNCHANGED <<tasks, stopper, clock, fired, made, deleted, deletes>>
    /\ UNCHANGED otherVars

\* Lines 149-150 of a call that waited for the lock.
ListEnd ==
    /\ Woken("list")
    /\ mgr' = Release(Resumed)
    /\ UNCHANGED <<tasks, stopper, clock, fired, made, deleted, deletes>>
    /\ UNCHANGED otherVars

\* Lines 276-281.
Start ==
    /\ IF mgr.task = NoHandle THEN TRUE ELSE tasks[mgr.task].pc \in Ended
    /\ Len(tasks) < MaxStarts
    /\ tasks' = Append(tasks, NewTask)
    /\ mgr' = [mgr EXCEPT !.task = Len(tasks) + 1]
    /\ UNCHANGED <<stopper, clock, fired, made, deleted, deletes>>
    /\ UNCHANGED otherVars

\* Lines 243-247: every registered callback is invoked, in order; one that
\* raises an Exception is logged.
InvokeCallbacks_uncontained(raising) ==
    LET n == Cardinality({i \in 1..MaxCallbacks : \A j \in 1..(i - 1) : j \notin raising}) IN
    [i \in 1..n |-> [cb |-> i, raised |-> i \in raising]]

InvokeCallbacks(raising) ==
    [i \in 1..MaxCallbacks |-> [cb |-> i, raised |-> i \in raising]]

\* A callback invoked for the reminder being delivered has raised, or its
\* notification will.
Faulty(task) ==
    \/ task.notify = "raises"
    \/ \E i \in 1..Len(task.ran) : task.ran[i].raised

\* Lines 243-250 for the reminder at position k of the due ones: the
\* callbacks are invoked, of which those in raising raise, and the
\* notification is awaited, which will return or raise an Exception.
Fire(t, m, now, ids, k) ==
    /\ \E raising \in SUBSET (1..MaxCallbacks), notify \in {"returns", "raises"} :
          tasks' = [tasks EXCEPT ![t] =
                       [pc |-> "notifying", now |-> now, due |-> ids, idx |-> k,
                        cancel |-> FALSE, ran |-> InvokeCallbacks(raising),
                        notify |-> notify,
                        failed |-> k > 1 /\ (tasks[t].failed \/ Faulty(tasks[t]))]]
    /\ mgr' = [m EXCEPT !.lock = t]
    /\ fired' = [fired EXCEPT ![ids[k]] = @ + 1]

\* Lines 238-250 once the lock is held: the due reminders are collected; the
\* first is fired; with nothing due the lock is released and the task sleeps.
Enter(t, m, now) ==
    LET due == SelectSeq(m.reminders, LAMBDA r : r.when <= now)
        ids == [i \in 1..Len(due) |-> due[i].id]
    IN  IF ids = <<>>
        THEN /\ tasks' = [tasks EXCEPT ![t] = Sleeping]
             /\ mgr' = Release(m)
             /\ UNCHANGED fired
        ELSE Fire(t, m, now, ids, 1)

\* Lines 232-237: the task starts, or wakes from its sleep, reads the clock
\* and asks for the lock.
Wake(t) ==
    /\ tasks[t].pc \in {"created", "sleeping"}
    /\ ~tasks[t].cancel
    /\ LET running == tasks[t].pc = "created" \/ mgr.running
           m == [mgr EXCEPT !.running = running]
       IN  IF ~running
           THEN /\ tasks' = [tasks EXCEPT ![t] = Done(@)]
                /\ mgr' = m
                /\ UNCHANGED fired
           ELSE IF ~CanAcquire(m)
           THEN /\ tasks' = [tasks EXCEPT ![t].pc = "locking", ![t].now = clock]
                /\ mgr' = Wait(m, Waiter("loop", t, NoReminder))
                /\ UNCHANGED fired
           ELSE Enter(t, m, clock)
    /\ UNCHANGED <<stopper, clock, made, deleted, deletes>>
    /\ UNCHANGED otherVars

\* Line 237, after waiting for the lock.
Acquire(t) ==
    /\ tasks[t].pc = "locking"
    /\ ~tasks[t].cancel
    /\ Woken("loop")
    /\ mgr.waiters[1].t = t
    /\ Enter(t, Resumed, tasks[t].now)
    /\ UNCHANGED <<stopper, clock, made, deleted, deletes>>
    /\ UNCHANGED otherVars

\* Lines 257-260 with a positive period: the next due time after now.
RECURSIVE NextWhen(_, _, _)
NextWhen(when, repeat, now) ==
    IF when <= now THEN NextWhen(when + repeat, repeat, now) ELSE when

\* Lines 255-262.
Reschedule(rs, id, now) ==
    LET kept == SelectSeq(rs, LAMBDA r : r.id # id \/ r.repeat # 0) IN
    [i \in 1..Len(kept) |->
        IF kept[i].id = id
        THEN [kept[i] EXCEPT !.when = NextWhen(@, kept[i].repeat, now)]
        ELSE kept[i]]

\* Lines 257-260 with a negative period: the loop steps back in time
\* without yielding until datetime's range ends, where the addition raises
\* OverflowError.
Overflows(r) == r.repeat < 0

\* Lines 250-266: the notification has been delivered, or has failed with an
\* Exception; the reminder is rescheduled or removed; the next due reminder
\* follows, or the store is sorted and saved, the lock released, and the
\* task sleeps.  An OverflowError in the rescheduling leaves the lock's
\* block and the loop (lines 269-273): the task ends with it.
Deliver(t) ==
    /\ tasks[t].pc = "notifying"
    /\ ~tasks[t].cancel
    /\ LET k  == tasks[t].idx
           r  == Find(mgr.reminders, tasks[t].due[k])
       IN  IF Overflows(r)
           THEN /\ mgr' = Release([mgr EXCEPT !.running = FALSE])
                /\ tasks' = [tasks EXCEPT ![t] = Crashed]
                /\ UNCHANGED fired
           ELSE IF k < Len(tasks[t].due)
           THEN Fire(t, [mgr EXCEPT !.reminders = Reschedule(@, r.id, tasks[t].now)],
                     tasks[t].now, tasks[t].due, k + 1)
           ELSE /\ mgr' = Release(Saved([mgr EXCEPT !.reminders =
                                             SortByWhen(Reschedule(@, r.id, tasks[t].now))]))
                /\ tasks' = [tasks EXCEPT ![t] = Sleeping]
                /\ UNCHANGED fired
    /\ UNCHANGED <<stopper, clock, made, deleted, deletes>>
    /\ UNCHANGED otherVars

\* The line for the lock without loop task t.
Left(m, t) ==
    [m EXCEPT !.waiters = SelectSeq(@, LAMBDA w : ~(w.who = "loop" /\ w.t = t))]

\* Lines 269-273: CancelledError is raised at the await the task is
\* suspended in.  It leaves the lock's block and the loop; a task that had
\* not started yet ends without running.  A task that held the lock
\* releases it; one that waited for the lock leaves the line and, the lock
\* not being held, wakes the first in line.
Cancelled(t) ==
    /\ tasks[t].pc \in Suspended
    /\ tasks[t].cancel
    /\ tasks' = [tasks EXCEPT ![t] = Done(@)]
    /\ LET m == [mgr EXCEPT !.running = IF tasks[t].pc = "created" THEN @ ELSE FALSE]
       IN  mgr' = IF tasks[t].pc = "notifying" THEN Release(m)
                  ELSE IF tasks[t].pc = "locking" /\ m.lock = NoHandle
                  THEN WakeUpFirst(Left(m, t))
                  ELSE Left(m, t)
    /\ UNCHANGED <<stopper, clock, fired, made, deleted, deletes>>
    /\ UNCHANGED otherVars

\* Task.cancel() on loop task t: a task that waits for the lock and has not
\* been woken has its place in the line cancelled at once.
Cancel(m, t) ==
    [m EXCEPT !.waiters = [i \in 1..Len(@) |->
        IF @[i].who = "loop" /\ @[i].t = t /\ @[i].state = "waiting"
        THEN [@[i] EXCEPT !.state = "cancelled"] ELSE @[i]]]

\* Lines 296-297: shutdown() after its stop() has returned.
SaveLocked(m) ==
    IF CanAcquire(m) THEN Release(Saved(m))
    ELSE Wait(m, Waiter("shutdown", 0, NoReminder))

\* Lines 285-289: stop() up to its await, called by shutdown() or not.
\* Awaiting a task that is done does not suspend; awaiting one that an
\* exception left raises it again, before line 292, and shutdown() does not
\* reach its save.
Stop(shutdown) ==
    /\ LET m == [mgr EXCEPT !.running = FALSE]
           after == IF shutdown THEN SaveLocked(m) ELSE m
           done == [m EXCEPT !.task = NoHandle]
       IN  IF mgr.task = NoHandle
           THEN /\ mgr' = after
                /\ UNCHANGED <<tasks, stopper>>
           ELSE IF tasks[mgr.task].pc = "crashed"
           THEN /\ mgr' = m
                /\ UNCHANGED <<tasks, stopper>>
           ELSE IF tasks[mgr.task].pc = "done"
           THEN /\ mgr' = IF shutdown THEN SaveLocked(done) ELSE done
                /\ UNCHANGED <<tasks, stopper>>
           ELSE /\ mgr' = Cancel(m, mgr.task)
                /\ tasks' = [tasks EXCEPT ![mgr.task].cancel = TRUE]
                /\ stopper' = [task |-> mgr.task, shutdown |-> shutdown]
    /\ UNCHANGED <<clock, fired, made, deleted, deletes>>
    /\ UNCHANGED otherVars

\* stop(), when no other stop() is in flight.
StopBegin ==
    /\ stopper = NoStop
    /\ Stop(FALSE)

\* Lines 294-297: shutdown() up to the first await that suspends.
Shutdown ==
    /\ stopper = NoStop
    /\ Pending("shutdown") < MaxShutdowns
    /\ Stop(TRUE)

\* Lines 289-292: the awaited task is done; shutdown() goes on to its save.
StopEnd ==
    /\ stopper # NoStop
    /\ tasks[stopper.task].pc = "done"
    /\ LET m == [mgr EXCEPT !.task = NoHandle] IN
       mgr' = IF stopper.shutdown THEN SaveLocked(m) ELSE m
    /\ stopper' = NoStop
    /\ UNCHANGED <<tasks, clock, fired, made, deleted, deletes>>
    /\ UNCHANGED otherVars

\* Line 297 of a shutdown() that waited for the lock.
ShutdownEnd ==
    /\ Woken("shutdown")
    /\ mgr' = Release(Saved(Resumed))
    /\ UNCHANGED <<tasks, stopper, clock, fired, made, deleted, deletes>>
    /\ UNCHANGED otherVars

\* Time passes.
Tick ==
    /\ clock < MaxTime
    /\ clock' = clock + 1
    /\ UNCHANGED <<mgr, tasks, stopper, fired, made, deleted, deletes>>
    /\ UNCHANGED otherVars

\* Lines 85-95: a manager constructed from a store file.
ReminderInit ==
    /\ \E store \in Stores :
          /\ mgr = [NewManager EXCEPT !.file = store, !.reminders = LoadStore(store)]
          /\ made = [i \in 1..Len(store) |-> store[i].repeat_seconds]
          /\ fired = [i \in 1..Len(store) |-> 0]
    /\ tasks = <<>>
    /\ stopper = NoStop
    /\ clock = 0
    /\ deleted = {}
    /\ deletes = 0
    /\ launcher = NewLauncher
    /\ frame = NoFrame
    /\ out = NoOut
    /\ render = NoRender
    /\ mode = "pure"
    /\ pc = "pure"
    /\ df = NoData
    /\ path = NoneV
    /\ app = NoHandle
    /\ wb = NoHandle
    /\ fs = [p \in Paths |-> NoFile]
    /\ hosts = <<>>
    /\ docs = <<>>
    /\ last = [op |-> "__init__", arg |-> NoneV, outcome |-> "returned", value |-> NoneV,
               saveRet |-> NoneV, error |-> NoneV, log |-> <<>>]
    /\ failed = FALSE
    /\ calls = 0

ReminderNext ==
    \/ AddReminder
    \/ AddEnd
    \/ DeleteReminder
    \/ DeleteEnd
    \/ ListReminders
    \/ ListEnd
    \/ Start
    \/ StopBegin
    \/ StopEnd
    \/ Shutdown
    \/ ShutdownEnd
    \/ Tick
    \/ \E t \in 1..Len(tasks) : Wake(t)
    \/ \E t \in 1..Len(tasks) : Acquire(t)
    \/ \E t \in 1..Len(tasks) : Deliver(t)
    \/ \E t \in 1..Len(tasks) : Cancelled(t)

ReminderSpec == ReminderInit /\ [][ReminderNext]_vars

-----------------------------------------------------------------------------
(* launch_gui.py: LauncherApp, its buttons and its worker threads          *)
(*                                                                         *)
(* start_run runs on the main thread, as the command of the Run button,    *)
(* which invokes it only while the button is enabled; use_sample and       *)
(* on_quit are the commands of two more buttons.  Each run is a thread;    *)
(* the thread sets _running itself, as its first statement, and disables   *)
(* the button next, and at its end clears _running and enables the button  *)
(* next.  Nothing orders the statements of a thread against those of       *)
(* another or against the next event the main thread handles.  The box     *)
(* on_quit shows while a run is in progress is modal: the main thread      *)
(* handles no other button until it is answered, and the worker threads    *)
(* go on meanwhile.  When on_quit has ended the main loop no button is      *)
(* handled any more; the worker threads, which are daemons, go on until    *)
(* the interpreter ends, which may cut them off after any step.            *)

\* Every variable but the launcher's.
sessionDataVars == <<df, path, app, wb, fs, hosts, docs, last, mode, pc, failed, calls,
                     frame, out, render, reminderVars>>

MaxRuns == 3

\* What the entry field holds: nothing, a path of no file, a path of a file.
Entries == {"", "missing.xlsx", "a.xlsx"}

\* Line 93, first statement, of worker w.
Begin(w) ==
    /\ launcher.workers[w] = "started"
    /\ launcher' = [launcher EXCEPT !.running = TRUE, !.workers[w] = "flagged"]
    /\ UNCHANGED sessionDataVars

\* Line 93, second statement: the Run button is disabled.
Disable(w) ==
    /\ launcher.workers[w] = "flagged"
    /\ launcher' = [launcher EXCEPT !.run_btn = "disabled", !.workers[w] = "import"]
    /\ UNCHANGED sessionDataVars

\* Lines 96-99: the import of Session fails, or the session is created.
Import(w) ==
    /\ launcher.workers[w] = "import"
    /\ \E ok \in BOOLEAN :
          launcher' = IF ok
                      THEN [launcher EXCEPT !.workers[w] = "pipeline"]
                      ELSE [launcher EXCEPT !.workers[w] = "finally",
                                            !.dialog = "Import error"]
    /\ UNCHANGED sessionDataVars

\* Lines 100-119: the pipeline succeeds or fails; the session is closed.
RunPipeline(w) ==
    /\ launcher.workers[w] = "pipeline"
    /\ \E ok \in BOOLEAN :
          launcher' = [launcher EXCEPT !.workers[w] = "finally",
                                       !.dialog = IF ok THEN "Success" ELSE "Error"]
    /\ UNCHANGED sessionDataVars

\* Line 121, first statement: _running is cleared.
Finish(w) ==
    /\ launcher.workers[w] = "finally"
    /\ launcher' = [launcher EXCEPT !.running = FALSE, !.workers[w] = "unflagged"]
    /\ UNCHANGED sessionDataVars

\* Line 121, second statement: the Run button is enabled, and the thread ends.
Enable(w) ==
    /\ launcher.workers[w] = "unflagged"
    /\ launcher' = [launcher EXCEPT !.run_btn = "normal", !.workers[w] = "ended"]
    /\ UNCHANGED sessionDataVars

\* Lines 79-90 with the flag start_run reads.
start_run(l, running, entry) ==
    IF running THEN [l EXCEPT !.dialog = "Already running"]
    ELSE IF entry = "" THEN [l EXCEPT !.dialog = "No file"]
    ELSE IF entry = "missing.xlsx" THEN [l EXCEPT !.dialog = "File not found"]
    ELSE [l EXCEPT !.workers = Append(@, "started")]

\* The Run button is pressed.
StartRun ==
    /\ launcher.main = "loop"
    /\ launcher.run_btn = "normal"
    /\ Len(launcher.workers) < MaxRuns
    /\ \E entry \in Entries : launcher' = start_run(launcher, launcher.running, entry)
    /\ UNCHANGED sessionDataVars

\* Lines 61-65: the sample is put in the entry field, or a box says that
\* there is none.
use_sample(l, present) == IF present THEN l ELSE [l EXCEPT !.dialog = "Sample not found"]

\* The Use sample button is pressed.
UseSample ==
    /\ launcher.main = "loop"
    /\ \E present \in BOOLEAN : launcher' = use_sample(launcher, present)
    /\ UNCHANGED sessionDataVars

\* Lines 70-73 up to the box: while a run is in progress on_quit asks, else
\* it ends the main loop.
on_quit(l) ==
    IF l.running
    THEN [l EXCEPT !.dialog = "Quit", !.main = "asking"]
    ELSE [l EXCEPT !.main = "ended"]

\* The Quit button is pressed.
OnQuit ==
    /\ launcher.main = "loop"
    /\ launcher' = on_quit(launcher)
    /\ UNCHANGED sessionDataVars

\* Lines 71-73: the box is answered.  On no on_quit returns; on yes it ends
\* the main loop, whatever the workers have done meanwhile.
Answer ==
    /\ launcher.main = "asking"
    /\ \E yes \in BOOLEAN :
          launcher' = [launcher EXCEPT !.main = IF yes THEN "ended" ELSE "loop"]
    /\ UNCHANGED sessionDataVars

LaunchInit ==
    /\ launcher = NewLauncher
    /\ NoManager
    /\ frame = NoFrame
    /\ out = NoOut
    /\ render = NoRender
    /\ mode = "pure"
    /\ pc = "pure"
    /\ df = NoData
    /\ path = NoneV
    /\ app = NoHandle
    /\ wb = NoHandle
    /\ fs = [p \in Paths |-> NoFile]
    /\ hosts = <<>>
    /\ docs = <<>>
    /\ last = [op |-> "__init__", arg |-> NoneV, outcome |-> "returned", value |-> NoneV,
               saveRet |-> NoneV, error |-> NoneV, log |-> <<>>]
    /\ failed = FALSE
    /\ calls = 0

LaunchNext ==
    \/ StartRun
    \/ UseSample
    \/ OnQuit
    \/ Answer
    \/ \E w \in 1..Len(launcher.workers) : Begin(w)
    \/ \E w \in 1..Len(launcher.workers) : Disable(w)
    \/ \E w \in 1..Len(launcher.workers) : Import(w)
    \/ \E w \in 1..Len(launcher.workers) : RunPipeline(w)
    \/ \E w \in 1..Len(launcher.workers) : Finish(w)
    \/ \E w \in 1..Len(launcher.workers) : Enable(w)

LaunchSpec == LaunchInit /\ [][LaunchNext]_vars

-----------------------------------------------------------------------------
(* Properties *)

\* Index of the first occurrence of x in seq, 0 when absent.
Pos(seq, x) ==
    IF x \in Range(seq) THEN CHOOSE i \in 1..Len(seq) :
                                 seq[i] = x /\ \A j \in 1..(i - 1) : seq[j] # x
    ELSE 0

\* The step is a call of op.
IsCall(op) == calls' = calls + 1 /\ last'.op = op

\* The last operation ran _safe_save into its fallback branch: the native
\* save (and the SaveAs retry) raised.
FallbackTaken == "clear" \in Range(last.log)

\* C1 as stated: whenever the native save raised for a session with a dataset
\* and a target path, the flat document with the dataset is at the path and
\* _safe_save returned True.
C1_AlwaysSaved ==
    (FallbackTaken /\ df # NoData /\ path # NoneV)
        => (last.saveRet = "True" /\ fs[path] = FlatFile(df))

\* C1 amended: after a raising native save, with a dataset and a target path,
\* the fallback write is issued; when it does not raise, the flat document
\* holding the whole dataset is at the path and _safe_save returned True; when
\* it raises, _safe_save returned False.
C1_FallbackSave ==
    (FallbackTaken /\ df # NoData /\ path # NoneV)
        => /\ "to_excel" \in Range(last.log)
           /\ IF "to_excel:raised" \in Range(last.log)
              THEN last.saveRet = "False"
              ELSE last.saveRet = "True" /\ fs[path] = FlatFile(df)

C1_Witness ==
    /\ FallbackTaken
    /\ df # NoData
    /\ "SaveAs:raised" \in Range(last.log)
    /\ last.saveRet = "True"
    /\ fs[path] = FlatFile(df)

\* C2: when the native save raised while the session held a host, the document
\* close and the host quit were both issued, in that order, before the handles
\* were cleared, the fallback write came after the clearing, and the session
\* holds no host afterwards.
C2_ReleaseBeforeFallback ==
    FallbackTaken =>
        LET lg == last.log IN
        /\ app = NoHandle /\ wb = NoHandle
        /\ "alerts_off" \in Range(lg) =>
              /\ 0 < Pos(lg, "wb.close")
              /\ Pos(lg, "wb.close") < Pos(lg, "app.quit")
              /\ Pos(lg, "app.quit") < Pos(lg, "clear")
        /\ "to_excel" \in Range(lg) => Pos(lg, "clear") < Pos(lg, "to_excel")

C2_Witness ==
    /\ "wb.close:raised" \in Range(last.log)
    /\ "app.quit:raised" \in Range(last.log)
    /\ "to_excel" \in Range(last.log)
    /\ last.op = "create_dashboard"

\* C3: when _safe_save returned False inside write_to_excel or
\* create_dashboard, the operation raised and returned no name.
C3_FalseIsFatal ==
    (last.op \in {"write_to_excel", "create_dashboard"} /\ last.saveRet = "False")
        => (last.outcome = "raised" /\ last.value = NoneV)

C3_Witness ==
    /\ last.op = "write_to_excel"
    /\ last.saveRet = "False"
    /\ last.outcome = "raised"

\* C4: close() on a session that holds no document returns normally, issues no
\* call to the host and changes nothing in the session, the files, the hosts
\* or the documents.
C4_CloseIdempotent ==
    [][(IsCall("close") /\ app = NoHandle /\ wb = NoHandle)
          => /\ last'.outcome = "returned"
             /\ last'.log = <<>>
             /\ UNCHANGED <<df, path, app, wb, fs, hosts, docs>>]_vars

\* A second close() right after a close() that released a document.
C4_Witness ==
    /\ last.op = "close"
    /\ last.log = <<>>
    /\ docs # <<>>
    /\ docs[Len(docs)].closeCalls = 1
    /\ hosts[Len(hosts)].quitCalls = 1

\* C5 as stated: after close(), every host process started has been quit
\* exactly once and every opened document closed exactly once.
C5_ReleasedExactlyOnce ==
    last.op = "close" =>
        /\ \A h \in 1..Len(hosts) : hosts[h].quitCalls = 1
        /\ \A d \in 1..Len(docs) : docs[d].closeCalls = 1

\* Hosts the session obtained with a document and has not yet asked to quit;
\* documents it has not yet asked to close.
HeldHosts == {h \in 1..Len(hosts) :
                 hosts[h].quitCalls = 0 /\ \E d \in 1..Len(docs) : docs[d].host = h}

OpenDocs == {d \in 1..Len(docs) : docs[d].closeCalls = 0}

\* C6: the session holds at most one host process and at most one open
\* document, and these are the ones its handles name.
C6_AtMostOneHost ==
    /\ (app = NoHandle) <=> (wb = NoHandle)
    /\ HeldHosts = (IF app = NoHandle THEN {} ELSE {app})
    /\ OpenDocs = (IF wb = NoHandle THEN {} ELSE {wb})

\* open_excel called while a host is held: no second host is started.
C6_Witness ==
    /\ last.op = "open_excel"
    /\ last.log = <<>>
    /\ app # NoHandle
    /\ Len(hosts) = 1

\* The lifecycle state of the session, read off its fields: a held document
\* is Rendering until its changes are saved; a session whose document was
\* released is Closed; before any document, the dataset decides.
Phase ==
    IF app # NoHandle
    THEN IF docs[wb].unsaved \/ ~docs[wb].saved THEN "Rendering" ELSE "Saved"
    ELSE IF docs # <<>> THEN "Closed"
    ELSE IF df = NoData THEN "Idle"
    ELSE IF df.cleaned THEN "Cleaned" ELSE "Loaded"

Rank(ph) ==
    CASE ph = "Idle" -> 0
      [] ph = "Loaded" -> 1
      [] ph = "Cleaned" -> 2
      [] ph = "Rendering" -> 3
      [] ph = "Saved" -> 4
      [] ph = "Closed" -> 5

\* C7 as stated: no step moves the session to an earlier lifecycle state,
\* except a load that restarts it at Loaded.
C7_Linear ==
    [][Rank(Phase') < Rank(Phase) => (IsCall("load") /\ Phase' = "Loaded")]_vars

\* C7 amended: the only steps that move the session to an earlier lifecycle
\* state are a load that restarts it at Loaded and the render-stage operations
\* (open_excel, write_to_excel, create_dashboard), which take a Saved or Closed
\* session back to Rendering or Saved; and a loaded dataset is never dropped.
C7_BackOnlyByRender ==
    [][/\ Rank(Phase') < Rank(Phase) =>
             \/ IsCall("load") /\ Phase' = "Loaded"
             \/ /\ IsCall("open_excel") \/ IsCall("write_to_excel")
                      \/ IsCall("create_dashboard")
                /\ Phase \in {"Saved", "Closed"}
                /\ Phase' \in {"Rendering", "Saved"}
       /\ df # NoData => df' # NoData]_vars

\* A second document is open and being rendered: the session went back from
\* Closed to Rendering.
C7_Witness ==
    /\ Len(docs) = 2
    /\ Phase = "Rendering"
    /\ last.op = "create_dashboard"

\* The pipeline is over: the GUI's run reached the end of its finally, or the
\* CLI's flow returned or let an error out.
PipelineEnded == mode # "api" /\ pc \in {"done", "propagated"}

\* The document saved by the host with the dataset and the finished dashboard.
Complete(c) == c.kind = "native" /\ c.dash = "complete" /\ c.src = df

\* C8 as stated: a pipeline run in which a stage raised, and which the caller
\* then closed, left at its path either the caller's untouched file or a
\* complete rendered document.
C8_NoPartialOutput ==
    (mode = "gui" /\ pc = "done" /\ failed)
        => (fs[path].kind = "input" \/ Complete(fs[path]))

\* C9 as stated: no pipeline run in which a stage raised ends with the session
\* still holding a host process.
C9_HostReleasedOnFailure ==
    (PipelineEnded /\ failed) => (app = NoHandle /\ wb = NoHandle)

\* C10 as stated: create_dashboard never starts building into an open document
\* that carries unsaved changes of an earlier create_dashboard.
C10_NoRenderOverUnsaved ==
    [][(IsCall("create_dashboard") /\ "build" \in Range(last'.log))
          => ~(wb # NoHandle /\ docs[wb].unsavedDash)]_vars

-----------------------------------------------------------------------------
(* Containment of host failures in the dashboard builder *)

Built == render.op = "create_advanced_dashboard"

\* The first host call made for a widget.
FirstCall(w) == IF w = "slicer" THEN "slicer.cache" ELSE WidgetCalls(w)[1].call

Attempted(w) == FirstCall(w) \in Range(render.log)

\* The host calls made for the widgets: all but the dashboard sheet's own
\* and the hidden source sheet's.
WidgetCallNames(f) ==
    CallNames(DashboardCalls(f)) \ CallNames(MainCalls \o SrcCalls \o FinalCalls)

PivotFailed == render.faults \cap {"pivot.sheet", "pivot.create"} # {}

\* C21: when one host call made for a widget raises (a KPI, a chart or its
\* aggregated sheet, the pivot, the slicer), the builder still returns and
\* every widget of the dataset has been attempted (the slicer, which is
\* built on the pivot table, unless the pivot table could not be made).
C21_EveryWidgetAttempted ==
    (Built /\ Cardinality(render.faults) = 1
           /\ render.faults \subseteq WidgetCallNames(frame))
    => /\ ~render.raised
       /\ \A w \in Range(Widgets(frame)) :
             Attempted(w) \/ (w = "slicer" /\ PivotFailed)

\* The host calls of the KPI cards, the pivot and the slicer.
KpiPivotCallNames ==
    CallNames(Flatten([i \in 1..Len(KpiNames) |-> KpiCalls(KpiNames[i])]) \o PivotCalls)

\* Call i of the program stands in a try block that an earlier raising
\* call ended.
Abandoned(prog, i) ==
    \E j \in 1..(i - 1) :
        prog[j].call \in render.faults /\ IsPrefix(prog[j].within, prog[i].within)

\* C22: when only host calls of KPI cards, of the pivot and of the slicer
\* raise, no exception leaves the builder, and it makes every later call
\* outside the try blocks the raising calls ended, up to the final autofit.
C22_KpiSlicerContained ==
    (Built /\ render.faults \subseteq KpiPivotCallNames)
    => /\ ~render.raised
       /\ "main.autofit" \in Range(render.log)
       /\ LET prog == DashboardCalls(frame) IN
          \A i \in 1..Len(prog) :
              ~Abandoned(prog, i) => prog[i].call \in Range(render.log)

\* A KPI value write and the pivot table's creation both raised, on a dataset
\* with charts after the KPI cards, and the builder returned.
C22_Witness ==
    /\ Built
    /\ render.faults = {"kpi1.value", "pivot.create"}
    /\ "trend" \in Range(Widgets(frame))
    /\ ~render.raised
    /\ "kpi2.value" \in Range(render.log)
    /\ "trend.add" \in Range(render.log)
    /\ "slicer.cache" \notin Range(render.log)

-----------------------------------------------------------------------------
(* The save protocol's choice between save and SaveAs *)

\* An operation that ran _safe_save on a document that was open before it
\* began, with a target path set.
SavedOpenDoc ==
    /\ calls' = calls + 1
    /\ last'.op \in {"write_to_excel", "create_dashboard"}
    /\ last'.saveRet # NoneV
    /\ app # NoHandle /\ wb # NoHandle
    /\ path # NoneV

SaveAsOnly(log) == "SaveAs" \in Range(log) /\ "save" \notin Range(log)

\* A plain save first; SaveAs only after the plain save raised.
SaveThenRetry(log) ==
    /\ "save" \in Range(log)
    /\ "SaveAs" \in Range(log)
          => "save:raised" \in Range(log) /\ Pos(log, "save") < Pos(log, "SaveAs")

\* C23: a document that carries the host's default name is saved by SaveAs
\* alone, and a document bound to the target path is saved by a plain save
\* first, with SaveAs only as the retry after the plain save raised.
C23_SaveAsForUnbound ==
    [][SavedOpenDoc =>
          /\ (~docs[wb].bound /\ docs[wb].name = DefaultName) => SaveAsOnly(last'.log)
          /\ (docs[wb].bound /\ docs[wb].name = path) => SaveThenRetry(last'.log)]_vars

-----------------------------------------------------------------------------
(* Error handling of load, clean and the render operations *)

\* C11: load(p) for a path p that does not exist raises an error of the
\* IOError class and changes nothing: the dataset, the stored path, both
\* handles, the files, the hosts and the documents are as before the call.
C11_LoadMissingPath ==
    [][(IsCall("load") /\ ~Exists(State, last'.arg))
          => /\ last'.outcome = "raised"
             /\ last'.error \in IOErrors
             /\ UNCHANGED <<df, path, app, wb, fs, hosts, docs>>]_vars

\* A failed load on a session that holds a dataset of another path and an
\* open document.
C11_Witness ==
    /\ last.op = "load"
    /\ last.error = "FileNotFoundError"
    /\ last.arg # path
    /\ df # NoData
    /\ app # NoHandle

EmptyLoaded == df # NoData /\ df.id = "empty"

\* C12 as stated: clean() called on a loaded dataset without rows raises a
\* DataError, so that no later stage runs.
C12_EmptyFailsClean ==
    [][(IsCall("clean") /\ EmptyLoaded)
          => (last'.outcome = "raised" /\ last'.error = "DataError")]_vars

\* C13: clean(), write_to_excel() and create_dashboard() on a session without
\* a loaded dataset raise, issue no call to the host and change nothing in
\* the session, the files, the hosts or the documents.
C13_RequiresLoaded ==
    [][((IsCall("clean") \/ IsCall("write_to_excel") \/ IsCall("create_dashboard"))
           /\ df = NoData)
          => /\ last'.outcome = "raised"
             /\ last'.error = "RuntimeError"
             /\ last'.log = <<>>
             /\ UNCHANGED <<df, path, app, wb, fs, hosts, docs>>]_vars

\* write_to_excel() after a load that failed on a missing file.
C13_Witness ==
    /\ last.op = "write_to_excel"
    /\ last.error = "RuntimeError"
    /\ df = NoData
    /\ hosts = <<>>
    /\ calls = 2

-----------------------------------------------------------------------------
(* The planner *)

Planned == out.op = "plan" /\ out.spec # NoSpec

PivotNames(spec) == [i \in 1..Len(spec.pivots) |-> spec.pivots[i].name]

ChartPivots(spec) == [i \in 1..Len(spec.charts) |-> spec.charts[i].pivot]

ChartTokens(spec) == [i \in 1..Len(spec.charts) |-> spec.charts[i].placeholder]

\* C14: every spec that plan returns has at most 3 charts, each chart refers
\* to a pivot of the spec by name, and no two charts share a placeholder
\* token.
C14_PlannerInvariant ==
    Planned =>
        /\ Len(out.spec.charts) <= MaxCharts
        /\ Range(ChartPivots(out.spec)) \subseteq Range(PivotNames(out.spec))
        /\ Distinct(ChartTokens(out.spec))

\* A spec with three charts, planned with a date override that names the
\* numeric column.
C14_Witness ==
    /\ Planned
    /\ Len(out.spec.charts) = MaxCharts
    /\ out.date_col = out.spec.metric
    /\ out.category_col = NoName

\* C15: plan on a dataset that is empty or has no numeric column raises a
\* PlannerError for that cause and returns no spec, and no metric has been
\* resolved when it raises.
C15_PlanGuard ==
    (out.op = "plan" /\ (IsEmpty(out.before) \/ numeric_columns(out.before) = <<>>))
        => /\ out.error = "PlannerError"
           /\ out.cause \in {"Input DataFrame is empty", "No numeric columns found"}
           /\ out.resolved = NoName
           /\ out.spec = NoSpec

\* plan on a dataset without rows that has a numeric column, with that
\* column supplied as the metric.
C15_Witness ==
    /\ out.op = "plan"
    /\ out.before.n = 0
    /\ numeric_columns(out.before) # <<>>
    /\ out.metric = numeric_columns(out.before)[1]
    /\ out.cause = "Input DataFrame is empty"

HasNumeric == ~IsEmpty(out.before) /\ numeric_columns(out.before) # <<>>

\* plan called with the metric override alone.
MetricOnly == out.date_col = NoName /\ out.category_col = NoName

\* C16 as stated: on a dataset with a numeric column, plan resolves the
\* metric to the supplied column when it is a column of the dataset and to
\* the first numeric column otherwise.
C16_MetricOrFirst ==
    (out.op = "plan" /\ HasNumeric /\ MetricOnly)
        => out.resolved = IF HasColumn(out.before, out.metric) THEN out.metric
                          ELSE numeric_columns(out.before)[1]

\* C16 amended: on a dataset with a numeric column, plan resolves the metric
\* to the supplied column when it is a column of the dataset, and to the
\* first numeric column when no metric is supplied; when the supplied metric
\* is not a column, plan raises a PlannerError ("Metric column not found")
\* and returns no spec.
C16_MetricResolution ==
    (out.op = "plan" /\ HasNumeric)
        => IF HasColumn(out.before, out.metric) THEN out.resolved = out.metric
           ELSE IF out.metric = NoName
           THEN out.resolved = numeric_columns(out.before)[1] /\ out.error = NoneV
           ELSE /\ out.error = "PlannerError"
                /\ out.cause = "Metric column not found"
                /\ out.resolved = NoName
                /\ out.spec = NoSpec

C16_Witness ==
    /\ out.op = "plan"
    /\ HasNumeric
    /\ out.metric = <<"z">>
    /\ out.cause = "Metric column not found"

\* The pivots a spec with these dimensions has, in order.
ExpectedPivots(spec) ==
    (IF spec.dimensions.date # NoName THEN <<"MetricByDate">> ELSE <<>>)
    \o (IF spec.dimensions.category # NoName THEN <<"MetricByCategory">> ELSE <<>>)
    \o <<"MetricDistribution">>

\* A dataset of one numeric column, planned without overrides.
SingleNumeric ==
    /\ Len(out.before.cols) = 1
    /\ out.before.cols[1].dtype \in NumberDtypes
    /\ out.metric = NoName /\ out.date_col = NoName /\ out.category_col = NoName

\* C17: in every planned spec the date pivot exists iff a date column
\* resolved, the category pivot exists iff a category column resolved, the
\* distribution pivot always exists, and the charts are one per pivot in the
\* same order; a dataset of a single numeric column has the distribution
\* pivot only, one chart and no slicer.
C17_PivotsAndCharts ==
    Planned =>
        /\ PivotNames(out.spec) = ExpectedPivots(out.spec)
        /\ ChartPivots(out.spec) = PivotNames(out.spec)
        /\ SingleNumeric =>
              /\ PivotNames(out.spec) = <<"MetricDistribution">>
              /\ Len(out.spec.charts) = 1
              /\ out.spec.slicers = <<>>

C17_Witness ==
    /\ Planned
    /\ SingleNumeric
    /\ out.spec.metric = out.before.cols[1].name
    /\ Len(out.spec.charts) = 1

\* C18 as stated: the record-count KPI of a spec planned without overrides,
\* for a metric that has values, is the number of non-missing values of the
\* metric.
C18_CountNonMissing ==
    (Planned /\ MetricOnly /\ out.metric = NoName /\ out.spec.kpis.KPI_Min # NA) =>
        out.spec.kpis.KPI_Records
            = Len(NotNull(ColumnOf(out.before, out.spec.metric).cells))

-----------------------------------------------------------------------------
(* Column roles and cleaning *)

AllRoles(r) == r.date_cols \o r.numeric_cols \o r.categorical_cols

\* C19: for a dataset that clean_data returned, detect_column_types lists
\* every column in exactly one of the three groups, and the groups hold
\* nothing but the columns.
C19_RolesPartition ==
    (out.op = "detect_column_types" /\ out.cleaned # NoneV)
        => /\ \A name \in Range(Names(out.before)) :
                 Cardinality({i \in 1..Len(AllRoles(out.roles)) :
                                 AllRoles(out.roles)[i] = name}) = 1
           /\ Range(AllRoles(out.roles)) = Range(Names(out.before))

\* A cleaned dataset with a column of date texts next to a numeric one.
C19_Witness ==
    /\ out.op = "detect_column_types"
    /\ out.cleaned # NoneV
    /\ out.roles.date_cols # <<>>
    /\ out.roles.numeric_cols # <<>>

\* C20: clean_data applied to the dataset that clean_data returned for the
\* same fill strategy returns that dataset: same columns, types and values.
C20_CleanIdempotent ==
    (out.op = "clean_data" /\ out.cleaned = out.fill)
        => (out.error = NoneV /\ frame = out.before)

\* The second cleaning of a dataset whose text column was renamed, coerced
\* to numbers and filled by the first.
C20_Witness ==
    /\ out.op = "clean_data"
    /\ out.cleaned = "median"
    /\ frame.n = MaxRows
    /\ Len(frame.cols) = 1
    /\ frame.cols[1].name = NumHeader
    /\ frame.cols[1].dtype = "float64"
    /\ \A i \in 1..frame.n : frame.cols[1].cells[i] = Num(70 * Scale)

-----------------------------------------------------------------------------
(* Resolution of the planner's dimensions *)

\* The first name of a list, or None.
FirstOrNone(names) == IF names # <<>> THEN names[1] ELSE NoName

\* C24: when plan is given no date column that the dataset has, also on a
\* cleaned dataset, the date dimension of the spec is the first column that
\* detect_column_types classifies as a date, and None when there is none.
C24_DateAgreesWithInference ==
    (Planned /\ out.cleaned # NoneV /\ ~HasColumn(out.before, out.date_col))
    => out.spec.dimensions.date = FirstOrNone(detect_column_types(out.before).date_cols)

\* A text column with more than 1 and at most 20 distinct non-missing values.
LowCardinality(col) ==
    col.dtype = "object" /\ 1 < NUnique(col.cells) /\ NUnique(col.cells) <= 20

\* C25: the category dimension of a planned spec is the caller's column when
\* the dataset has it, whatever its cardinality; else the first text column,
\* in column order, with more than 1 and at most 20 distinct non-missing
\* values; else None.
C25_CategoryResolution ==
    Planned =>
        out.spec.dimensions.category =
            IF HasColumn(out.before, out.category_col) THEN out.category_col
            ELSE FirstOrNone(Pick(Names(out.before),
                                  {j \in 1..Len(out.before.cols) :
                                      LowCardinality(out.before.cols[j])}))

\* With no category supplied, a first text column of 21 distinct values was
\* passed over for the second text column.
C25_Witness ==
    /\ Planned
    /\ out.category_col = NoName
    /\ Len(out.before.cols) = 3
    /\ NUnique(out.before.cols[1].cells) = 21
    /\ out.spec.dimensions.category = out.before.cols[2].name

\* The column whose values a chart has on its axis: the date column, the
\* category column, or the metric whose records the distribution counts.
AxisOf(spec, chart) ==
    IF chart.pivot = "MetricByDate" THEN spec.dimensions.date
    ELSE IF chart.pivot = "MetricByCategory" THEN spec.dimensions.category
    ELSE spec.metric

\* Trend line for dates, clustered columns for up to 6 distinct values,
\* horizontal bars above.
KindFor(col) ==
    IF col.dtype = "datetime64" THEN "line"
    ELSE IF NUnique(col.cells) <= 6 THEN "column"
    ELSE "bar"

\* C26 as stated: every chart of a planned spec, the distribution chart
\* included, has the kind its axis values call for (here for a plan without
\* overrides on a dataset of 7 rows).
C26_KindByAxis ==
    (Planned /\ MetricOnly /\ out.metric = NoName /\ out.before.n = 7)
    => \A i \in 1..Len(out.spec.charts) :
          out.spec.charts[i].type =
              KindFor(ColumnOf(out.before, AxisOf(out.spec, out.spec.charts[i])))

\* C26, amended: the date chart and the category chart have the kind their
\* axis column calls for, also when the caller supplied the column; the
\* distribution chart is always of the clustered-column kind.
C26_KindOfDimensionCharts ==
    Planned
    => \A i \in 1..Len(out.spec.charts) :
          out.spec.charts[i].type =
              IF out.spec.charts[i].pivot = "MetricDistribution" THEN "column"
              ELSE KindFor(ColumnOf(out.before, AxisOf(out.spec, out.spec.charts[i])))

\* The caller supplied a category column of 7 distinct values, and the
\* category chart is a horizontal bar chart.
C26_Witness ==
    /\ Planned
    /\ out.category_col # NoName
    /\ out.spec.dimensions.category = out.category_col
    /\ NUnique(ColumnOf(out.before, out.category_col).cells) = 7
    /\ \E i \in 1..Len(out.spec.charts) :
          /\ out.spec.charts[i].pivot = "MetricByCategory"
          /\ out.spec.charts[i].type = "bar"

\* C27: the slicers of a planned spec are the category dimension followed by
\* the date dimension, each only if it resolved.
C27_Slicers ==
    Planned =>
        out.spec.slicers =
            (IF out.spec.dimensions.category # NoName
             THEN <<out.spec.dimensions.category>> ELSE <<>>)
            \o (IF out.spec.dimensions.date # NoName
                THEN <<out.spec.dimensions.date>> ELSE <<>>)

\* Both dimensions resolved and the spec has two slicers.
C27_Witness ==
    /\ Planned
    /\ out.spec.dimensions.category # NoName
    /\ out.spec.dimensions.date # NoName
    /\ out.spec.dimensions.category # out.spec.dimensions.date
    /\ Len(out.spec.slicers) = 2

-----------------------------------------------------------------------------
(* Cleaning: coercion of texts and fill of missing numbers *)

\* clean_data returned, applied to a dataset as given.
Cleaned == out.op = "clean_data" /\ out.error = NoneV /\ out.cleaned = NoneV

\* The dataset inside clean_data when the coercion starts: empty rows and
\* columns dropped, headers normalised, texts trimmed.  Column j of it
\* becomes column j of the result.
Trimmed == TrimStrings(normalize_headers(DropEmptyCols(DropEmptyRows(out.before))))

\* At least half of the non-missing values of the cells parse as numbers.
HalfParse(cells) == 2 * Len(NotNull(ToNumeric(cells))) >= Len(NotNull(cells))

\* C28: a text column is replaced by its numeric coercion if and only if at
\* least 50% of its non-missing values parse as numbers, and is left as it
\* was otherwise (here for text columns without missing values).
C28_CoercedIffHalfParse ==
    Cleaned =>
        \A j \in 1..Len(Trimmed.cols) :
            (/\ Trimmed.cols[j].dtype = "object"
             /\ NotNull(Trimmed.cols[j].cells) = Trimmed.cols[j].cells)
            => IF HalfParse(Trimmed.cols[j].cells)
               THEN frame.cols[j].dtype \in NumberDtypes
               ELSE frame.cols[j] = Trimmed.cols[j]

\* The fill value of a strategy for the values of a column.
FillValue(fill, vals) ==
    IF fill = "median" THEN Median(vals)
    ELSE IF fill = "mean" THEN Mean(vals)
    ELSE 0

\* C29: after clean_data no numeric column has a missing value, and every
\* entry that was missing after the coercion holds the median, the mean or
\* zero of the column's other values, as the strategy says.
C29_MissingFilled ==
    Cleaned =>
        \A j \in 1..Len(frame.cols) :
            frame.cols[j].dtype \in NumberDtypes
            => LET was == CoerceColumn(Trimmed.cols[j]).cells IN
               \A i \in 1..frame.n :
                   /\ ~IsNA(frame.cols[j].cells[i])
                   /\ IsNA(was[i])
                         => frame.cols[j].cells[i] = Num(FillValue(out.fill, Values(was)))

\* The column "1,200", "$300", "NA" has become 1200, 300, 750 under the
\* median strategy.
C29_Witness ==
    /\ Cleaned
    /\ out.fill = "median"
    /\ out.before = AmountsFrame
    /\ frame.cols[1].cells = <<Num(1200 * Scale), Num(300 * Scale), Num(750 * Scale)>>

-----------------------------------------------------------------------------
(* Reminders *)

\* C30: the on-fire callbacks are invoked at most once for a reminder
\* created without repeat_seconds.
C30_FiresAtMostOnce ==
    \A id \in 1..Len(made) : made[id] = 0 => fired[id] <= 1

\* The step of task t that ends the delivery of a reminder: the awaited
\* notification has returned or raised, and the task was not cancelled.
Delivered(t) ==
    /\ tasks[t].pc = "notifying"
    /\ ~tasks[t].cancel
    /\ tasks'[t].idx # tasks[t].idx

\* The reminder whose delivery task t awaits.
Current(t) == tasks[t].due[tasks[t].idx]

\* The smallest when + k * repeat, k >= 1, after now.
IsCatchUp(next, when, repeat, now) ==
    /\ next > now
    /\ \E k \in 1..(MaxTime + 2) :
          /\ next = when + k * repeat
          /\ \A j \in 1..(k - 1) : when + j * repeat <= now

\* C31: when the loop has processed a due reminder with repeat_seconds at
\* time now, the reminder was fired once in that tick, it is still in the
\* list, and its fire time is the smallest old_when + k * repeat_seconds,
\* k >= 1, after now.
C31_CatchUp ==
    [][\A t \in 1..Len(tasks) :
          Delivered(t) /\ Find(mgr.reminders, Current(t)).repeat # 0 =>
             LET old == Find(mgr.reminders, Current(t))
                 new == Find(mgr'.reminders, Current(t))
             IN  /\ Cardinality({i \in 1..Len(tasks[t].due) :
                                    tasks[t].due[i] = Current(t)}) = 1
                 /\ fired'[Current(t)] = fired[Current(t)]
                 /\ new # NoReminder
                 /\ IsCatchUp(new.when, old.when, old.repeat, tasks[t].now)]_vars

\* A task is processing a batch of due reminders.
Processing == \E t \in 1..Len(tasks) : tasks[t].pc = "notifying"

\* C32: once delete_reminder(id) has returned True the callbacks are not
\* invoked and no notification is issued for id; and while the loop
\* processes a batch of due reminders no add_reminder and no delete_reminder
\* completes.
C32_DeletedNeverFires ==
    [][/\ \A id \in deleted : fired'[id] = fired[id]
       /\ Processing => made' = made /\ deletes' = deletes /\ deleted' = deleted]_vars

\* A repeating reminder was fired, then deleted; at a later time at which it
\* would have been due again, the loop fires another reminder.
C32_Witness ==
    \E id \in deleted, t \in 1..Len(tasks) :
        /\ made[id] > 0
        /\ fired[id] = 1
        /\ tasks[t].pc = "notifying"
        /\ tasks[t].now = MaxTime
        /\ Current(t) # id

\* The loop tasks that have not ended.
Live == {t \in 1..Len(tasks) : tasks[t].pc \notin Ended}

\* C33: at most one loop task of the manager has not ended, and when a
\* stop() that waited for the loop task returns, none is left.
C33_OneLoop ==
    [][/\ Cardinality(Live') <= 1
       /\ stopper # NoStop /\ stopper' = NoStop => Live' = {}]_vars

\* C34: when a callback invoked for a reminder has raised an Exception, or
\* its notification has, every registered callback was invoked for it all
\* the same, the reminder is removed or rescheduled, the next due reminder
\* of the tick is fired or the tick completes, and the loop has not ended.
C34_FailureContained ==
    [][\A t \in 1..Len(tasks) :
          /\ Delivered(t)
          /\ Faulty(tasks[t])
          /\ Find(mgr.reminders, Current(t)).repeat >= 0
          => LET task == tasks[t]
                 old  == Find(mgr.reminders, Current(t))
                 new  == Find(mgr'.reminders, Current(t))
             IN  /\ {task.ran[i].cb : i \in 1..Len(task.ran)} = 1..MaxCallbacks
                 /\ IF old.repeat = 0 THEN new = NoReminder ELSE new.when > task.now
                 /\ IF task.idx < Len(task.due)
                    THEN /\ tasks'[t].pc = "notifying"
                         /\ tasks'[t].idx = task.idx + 1
                         /\ fired'[task.due[task.idx + 1]] = fired[task.due[task.idx + 1]] + 1
                    ELSE /\ tasks'[t].pc = "sleeping"
                         /\ mgr'.lock = NoHandle
                         /\ mgr'.file = Saved(mgr').file
                 /\ mgr'.running = mgr.running]_vars

\* After a delivery in which a callback or the notification raised, the
\* second due reminder of the tick is fired; the first, which had no
\* repeat_seconds, is gone.
C34_Witness ==
    \E t \in 1..Len(tasks) :
        /\ tasks[t].pc = "notifying"
        /\ tasks[t].idx = 2
        /\ tasks[t].failed
        /\ made[tasks[t].due[1]] = 0
        /\ Find(mgr.reminders, tasks[t].due[1]) = NoReminder
        /\ fired[Current(t)] = 1

\* The tick in which task t fired a reminder completes: the list is sorted
\* and saved, and the task sleeps.
TickCompleted(t) == Delivered(t) /\ tasks'[t].pc = "sleeping"

\* The entries of the store file a _save of the list rs writes.
Dump(rs) == [i \in 1..Len(rs) |-> to_json(rs[i])]

\* The tick in which task t fired a reminder ends: it completes, or a
\* cancellation or an exception leaves it.
TickEnded(t) == tasks[t].pc = "notifying" /\ tasks'[t].pc # "notifying"

\* C35: after every completed add_reminder, every delete_reminder that
\* returned True and every loop tick that fired at least one reminder, the
\* store file holds exactly the reminders of the list in memory, and a
\* manager constructed from it loads the same reminders.
C35_StoreTracksMemory ==
    [][(\/ Len(made') > Len(made)
        \/ deleted' # deleted
        \/ \E t \in 1..Len(tasks) : TickEnded(t))
       => /\ Range(mgr'.file) = Range(Dump(mgr'.reminders))
          /\ Range(LoadStore(mgr'.file)) = Range(mgr'.reminders)]_vars

\* The worker threads of the launcher that have not ended.
InProgress == {w \in 1..Len(launcher.workers) : launcher.workers[w] # "ended"}

\* C36: at most one run of the launcher is in progress, and a start_run
\* issued while a run is in progress, its thread begun or not, starts no
\* worker thread.
C36_OneRun ==
    [][/\ Cardinality(InProgress') <= 1
       /\ Len(launcher'.workers) > Len(launcher.workers) => InProgress = {}]_vars

\* The list is ordered by non-decreasing fire time.
Sorted(rs) == \A i \in 1..(Len(rs) - 1) : rs[i].when <= rs[i + 1].when

\* A tick of task t that found nothing due completes.
IdleTick(t) == tasks[t].pc \in {"created", "locking"} /\ tasks'[t].pc = "sleeping"

\* C37: the list in memory is ordered by non-decreasing fire time when the
\* manager has been constructed from a store, after every completed
\* add_reminder and delete_reminder, and after every completed loop tick.
C37_SortedList ==
    /\ Sorted(mgr.reminders)
    /\ [][(\/ Len(made') > Len(made)
           \/ deletes' # deletes
           \/ \E t \in 1..Len(tasks) : TickCompleted(t) \/ IdleTick(t))
          => Sorted(mgr'.reminders)]_vars

====
